---- MODULE Spec2Model ----
(***************************************************************************)
(* Backtesting engine of the trading agent: Backtester (src/lib/ai-models.ts),*)
(* TradingStrategy (src/lib/strategies.ts), AIRiskManager                  *)
(* (src/lib/ai-models.ts) and the indicators (src/lib/indicators.ts).      *)
(*                                                                         *)
(* Numbers.  The code computes with IEEE doubles; the model computes with  *)
(* exact fixed-point integers:                                             *)
(*   close prices            whole price ticks                             *)
(*   rsi, sma20, sma50       hundredths (the code rounds them toFixed(2))  *)
(*   confidence              hundredths (toFixed(2))                       *)
(*   money (capital, targetPrice, stopLoss, fill price, commission, pnl)   *)
(*                           1/MoneyScale of a price tick                  *)
(*   positionSize            whole percent                                 *)
(*   commission, slippage    1/PctScale of a percent (10 is 0.1 %)         *)
(*   timestamps              ticks, TicksPerDay of them per calendar day   *)
(* The inputs are chosen so that every division the code performs on money *)
(* is exact in this representation.                                        *)
(***************************************************************************)
EXTENDS Integers, Sequences, FiniteSets, TLC

\* ---------------------------------------------------------------- units
MoneyScale == 10 ^ 5
PctScale == 10 ^ 2
\* 100 percent, in the unit of commission and slippage
PctDen == 100 * PctScale
\* Resolution of the clock: timestamps per calendar day.
TicksPerDay == 2
\* The provider's series are cut to this many price points.
MaxPoints == 23

\* ------------------------------------------------------------ arithmetic
Abs(x) == IF x < 0 THEN -x ELSE x
Min(a, b) == IF a <= b THEN a ELSE b
\* Math.min written for Math.max
MaxAsMin(a, b) == IF a <= b THEN a ELSE b
Max(a, b) == IF a >= b THEN a ELSE b

\* Nearest integer to n/d (n >= 0, d > 0), halves up: Number.toFixed.
RoundDiv(n, d) == (2 * n + d) \div (2 * d)

RECURSIVE SumSeq(_)
SumSeq(s) == IF s = << >> THEN 0 ELSE Head(s) + SumSeq(Tail(s))

\* Array.prototype.slice(-k)
LastN(s, k) == SubSeq(s, Len(s) - Min(k, Len(s)) + 1, Len(s))

\* The elements of a finite set of integers in ascending order.
RECURSIVE SortedSeq(_)
SortedSeq(S) ==
    IF S = {} THEN << >>
    ELSE LET m == CHOOSE x \in S : \A y \in S : x <= y
         IN <<m>> \o SortedSeq(S \ {m})

\* Unbounded naturals for the Wilder averages of calculateRSI, whose exact
\* denominators grow as 14^k: little-endian limbs in base BigBase, 0 is << >>.
BigBase == 10 ^ 4

RECURSIVE BigOfNat(_)
BigOfNat(n) == IF n = 0 THEN << >> ELSE <<n % BigBase>> \o BigOfNat(n \div BigBase)

RECURSIVE BigAddC(_, _, _)
BigAddC(x, y, carry) ==
    IF x = << >> /\ y = << >> THEN BigOfNat(carry)
    ELSE LET a == IF x = << >> THEN 0 ELSE Head(x)
             b == IF y = << >> THEN 0 ELSE Head(y)
             t == a + b + carry
         IN <<t % BigBase>> \o
            BigAddC(IF x = << >> THEN x ELSE Tail(x),
                    IF y = << >> THEN y ELSE Tail(y), t \div BigBase)

BigAdd(x, y) == BigAddC(x, y, 0)

\* x * m for 0 <= m <= 200000
RECURSIVE BigMulC(_, _, _)
BigMulC(x, m, carry) ==
    IF x = << >> THEN BigOfNat(carry)
    ELSE LET t == Head(x) * m + carry
         IN <<t % BigBase>> \o BigMulC(Tail(x), m, t \div BigBase)

BigMul(x, m) == IF m = 0 THEN << >> ELSE BigMulC(x, m, 0)

\* x <= y (both without leading zero limbs)
RECURSIVE BigLeq(_, _)
BigLeq(x, y) ==
    IF Len(x) # Len(y) THEN Len(x) < Len(y)
    ELSE IF x = << >> THEN TRUE
    ELSE LET n == Len(x)
         IN IF x[n] # y[n] THEN x[n] < y[n]
            ELSE BigLeq(SubSeq(x, 1, n - 1), SubSeq(y, 1, n - 1))

\* The largest v in lo..hi with v * d <= n (d > 0, lo * d <= n)
RECURSIVE BigQuot(_, _, _, _)
BigQuot(n, d, lo, hi) ==
    IF lo = hi THEN lo
    ELSE LET mid == (lo + hi + 1) \div 2
         IN IF BigLeq(BigMul(d, mid), n) THEN BigQuot(n, d, mid, hi)
            ELSE BigQuot(n, d, lo, mid - 1)

\* ------------------------------------------------------------ indicators
RSIPeriod == 14
SMAShort == 20
SMALong == 50
MinHistory == 20

\* The Wilder loop of calculateRSI over changes[i..], on the numerators of
\* avgGain and avgLoss over their common denominator period^k:
\* avg' = (avg * (period - 1) + value) / period.
RECURSIVE WilderLoop(_, _, _, _, _, _)
WilderLoop(changes, i, period, avgGain, avgLoss, pow) ==
    IF i > Len(changes) THEN <<avgGain, avgLoss>>
    ELSE LET c == changes[i]
             gain == IF c > 0 THEN c ELSE 0
             loss == IF c < 0 THEN Abs(c) ELSE 0
         IN WilderLoop(changes, i + 1, period,
                BigAdd(BigMul(avgGain, period - 1), BigMul(pow, gain)),
                BigAdd(BigMul(avgLoss, period - 1), BigMul(pow, loss)),
                BigMul(pow, period))

\* calculateRSI with rs = avgLoss / avgGain
calculateRSIInverted(prices, period) ==
    IF Len(prices) < period + 1 THEN 5000
    ELSE LET changes == [i \in 1..(Len(prices) - 1) |-> prices[i + 1] - prices[i]]
             gains == [i \in 1..period |-> IF changes[i] > 0 THEN changes[i] ELSE 0]
             losses == [i \in 1..period |-> IF changes[i] < 0 THEN Abs(changes[i]) ELSE 0]
             avg == WilderLoop(changes, period + 1, period,
                               BigOfNat(SumSeq(gains)), BigOfNat(SumSeq(losses)),
                               BigOfNat(period))
             G == avg[1]
             L == avg[2]
             T == BigAdd(G, L)
         IN IF L = << >> THEN 10000
            ELSE BigQuot(BigAdd(BigMul(L, 20000), T), BigMul(T, 2), 0, 10000)

\* calculateRSI(prices, period), in hundredths.  100 - 100/(1 + G/L) is
\* 100 G/(G + L), rounded to two decimals.
calculateRSI(prices, period) ==
    IF Len(prices) < period + 1 THEN 5000
    ELSE LET changes == [i \in 1..(Len(prices) - 1) |-> prices[i + 1] - prices[i]]
             gains == [i \in 1..period |-> IF changes[i] > 0 THEN changes[i] ELSE 0]
             losses == [i \in 1..period |-> IF changes[i] < 0 THEN Abs(changes[i]) ELSE 0]
             avg == WilderLoop(changes, period + 1, period,
                               BigOfNat(SumSeq(gains)), BigOfNat(SumSeq(losses)),
                               BigOfNat(period))
             G == avg[1]
             L == avg[2]
             T == BigAdd(G, L)
         IN IF L = << >> THEN 10000
            ELSE BigQuot(BigAdd(BigMul(G, 20000), T), BigMul(T, 2), 0, 10000)

\* calculateSMA(prices, period), in hundredths
calculateSMA(prices, period) ==
    IF Len(prices) < period THEN 100 * prices[Len(prices)]
    ELSE RoundDiv(100 * SumSeq(LastN(prices, period)), period)

\* ------------------------------------------------ TradingStrategy (strategies.ts)
\* data.price * factor, factor in hundredths (1.05 is 105), as money
PriceTimes(price, factor) == price * factor * (MoneyScale \div 100)

\* calculateConfidence(value, threshold, below): value and threshold in
\* hundredths, the result in hundredths (toFixed(2)); both arms of the
\* code's conditional are the same expression.
calculateConfidence(value, threshold, below) ==
    LET distance == Abs(value - threshold)
        maxDistance == 20
    IN Min(RoundDiv(distance, maxDistance), 100)

\* meanReversionStrategy(data): << >> is null, <<signal>> a signal.
\* !data.rsi is true of an RSI of 0.
meanReversionStrategy(data) ==
    IF data.rsi = 0 THEN << >>
    ELSE IF data.rsi < 3000 THEN
        << [symbol |-> data.symbol, action |-> "BUY",
            confidence |-> calculateConfidence(data.rsi, 3000, TRUE),
            reason |-> "RSI oversold",
            targetPrice |-> PriceTimes(data.price, 105),
            stopLoss |-> PriceTimes(data.price, 97)] >>
    ELSE IF data.rsi > 7000 THEN
        << [symbol |-> data.symbol, action |-> "SELL",
            confidence |-> calculateConfidence(data.rsi, 7000, FALSE),
            reason |-> "RSI overbought",
            targetPrice |-> PriceTimes(data.price, 95),
            stopLoss |-> PriceTimes(data.price, 103)] >>
    ELSE << >>

\* momentumStrategy with >= and <= for > and <
momentumStrategyInclusive(data) ==
    IF data.sma20 = 0 \/ data.sma50 = 0 THEN << >>
    ELSE IF data.sma20 >= data.sma50 /\ 100 * data.price >= data.sma20 THEN
        << [symbol |-> data.symbol, action |-> "BUY",
            confidence |-> 65,
            reason |-> "Golden cross detected",
            targetPrice |-> PriceTimes(data.price, 108),
            stopLoss |-> PriceTimes(data.price, 95)] >>
    ELSE IF data.sma20 <= data.sma50 /\ 100 * data.price <= data.sma20 THEN
        << [symbol |-> data.symbol, action |-> "SELL",
            confidence |-> 65,
            reason |-> "Death cross detected",
            targetPrice |-> PriceTimes(data.price, 92),
            stopLoss |-> PriceTimes(data.price, 105)] >>
    ELSE << >>

\* momentumStrategy(data); data.price is in ticks, the averages in hundredths
momentumStrategy(data) ==
    IF data.sma20 = 0 \/ data.sma50 = 0 THEN << >>
    ELSE IF data.sma20 > data.sma50 /\ 100 * data.price > data.sma20 THEN
        << [symbol |-> data.symbol, action |-> "BUY",
            confidence |-> 65,
            reason |-> "Golden cross detected",
            targetPrice |-> PriceTimes(data.price, 108),
            stopLoss |-> PriceTimes(data.price, 95)] >>
    ELSE IF data.sma20 < data.sma50 /\ 100 * data.price < data.sma20 THEN
        << [symbol |-> data.symbol, action |-> "SELL",
            confidence |-> 65,
            reason |-> "Death cross detected",
            targetPrice |-> PriceTimes(data.price, 92),
            stopLoss |-> PriceTimes(data.price, 105)] >>
    ELSE << >>

\* ------------------------------------------------ AIRiskManager (ai-models.ts)
\* calculateRiskMetrics(signal).approved.  The ratio the code computes is
\* |target - stop| / |stop - target|: 1, or NaN (never < 0.8) when equal.
calculateRiskMetrics(signal) ==
    LET lowConfidence == signal.confidence < 25
        num == Abs(signal.targetPrice - signal.stopLoss)
        den == Abs(signal.stopLoss - signal.targetPrice)
        poorRatio == /\ signal.stopLoss # 0 /\ signal.targetPrice # 0
                     /\ den # 0 /\ 10 * num < 8 * den
    IN ~lowConfidence /\ ~poorRatio

\* assessRisk leaving its loop at the first rejected signal
RECURSIVE assessRiskUntilRejection(_)
assessRiskUntilRejection(sigs) ==
    IF sigs = << >> THEN << >>
    ELSE IF calculateRiskMetrics(Head(sigs))
         THEN <<Head(sigs)>> \o assessRiskUntilRejection(Tail(sigs))
         ELSE << >>

\* assessRisk(signals): the approved signals, in order
assessRisk(sigs) == SelectSeq(sigs, calculateRiskMetrics)

\* The rule loop keeping one signal per snapshot: the momentum rule is asked
\* only when the mean-reversion rule gave nothing
RECURSIVE RuleSignalsOnePerSnapshot(_)
RuleSignalsOnePerSnapshot(marketData) ==
    IF marketData = << >> THEN << >>
    ELSE (IF meanReversionStrategy(Head(marketData)) # << >>
          THEN meanReversionStrategy(Head(marketData))
          ELSE momentumStrategy(Head(marketData)))
         \o RuleSignalsOnePerSnapshot(Tail(marketData))

\* generateSignals(marketData): for each snapshot the mean-reversion signal,
\* then the momentum signal; then the risk manager's filter.
RECURSIVE RuleSignals(_)
RuleSignals(marketData) ==
    IF marketData = << >> THEN << >>
    ELSE meanReversionStrategy(Head(marketData))
         \o momentumStrategy(Head(marketData))
         \o RuleSignals(Tail(marketData))

generateSignals(marketData) == assessRisk(RuleSignals(marketData))

\* ------------------------------------------------ Backtester (ai-models.ts)
\* new Date(d.date).toDateString(): the calendar day of a timestamp
ToDateString(ts) == ts \div TicksPerDay

\* new Date(dateStr): midnight of a calendar day
DateOfDay(day) == day * TicksPerDay

RECURSIVE PointDays(_)
PointDays(data) ==
    IF data = << >> THEN {} ELSE {ToDateString(Head(data).date)} \cup PointDays(Tail(data))

\* getAllTradingDates taking the calendar of one symbol for the calendar of all
getAllTradingDatesOfOneSymbol(hd) ==
    LET datesSet == PointDays(hd[CHOOSE sym \in DOMAIN hd : TRUE])
        sorted == SortedSeq(datesSet)
    IN [i \in 1..Len(sorted) |-> DateOfDay(sorted[i])]

\* getAllTradingDates(historicalData): the set of calendar days of all points
\* of all symbols, each as its midnight, sorted by time
getAllTradingDates(hd) ==
    LET datesSet == UNION {PointDays(hd[sym]) : sym \in DOMAIN hd}
        sorted == SortedSeq(datesSet)
    IN [i \in 1..Len(sorted) |-> DateOfDay(sorted[i])]

\* The snapshots of one date (simulateTrading, the loop over config.symbols)
RECURSIVE MarketDataForDay(_, _, _)
MarketDataForDay(symbols, hd, date) ==
    IF symbols = << >> THEN << >>
    ELSE
      LET symbol == Head(symbols)
          rest == MarketDataForDay(Tail(symbols), hd, date)
      IN IF symbol \notin DOMAIN hd THEN rest
         ELSE
           LET symbolData == hd[symbol]
               onDate == SelectSeq(symbolData,
                            LAMBDA d : ToDateString(d.date) = ToDateString(date))
               upTo == SelectSeq(symbolData, LAMBDA d : d.date <= date)
               pricesUpToDate == [i \in 1..Len(upTo) |-> upTo[i].close]
           IN IF onDate = << >> THEN rest
              ELSE IF Len(pricesUpToDate) < MinHistory THEN rest
              ELSE << [symbol |-> symbol,
                       price |-> Head(onDate).close,
                       rsi |-> calculateRSI(pricesUpToDate, RSIPeriod),
                       sma20 |-> calculateSMA(pricesUpToDate, SMAShort),
                       sma50 |-> calculateSMA(pricesUpToDate, SMALong)] >> \o rest

\* canExecuteSignal without its "Already have position" test
canExecuteSignalIgnoringPosition(cfg, signal, cap, positions) ==
    IF signal.action = "HOLD" THEN [can |-> FALSE, reason |-> "HOLD signal"]
    ELSE IF signal.action = "BUY" THEN
        LET q == (cap * cfg.positionSize) \div 100
            r == (cap * cfg.positionSize) % 100
            positionValueAboveCapital == q > cap \/ (q = cap /\ r > 0)
        IN IF positionValueAboveCapital
           THEN [can |-> FALSE, reason |-> "Insufficient capital"]
           ELSE [can |-> TRUE, reason |-> ""]
    ELSE IF signal.action = "SELL" THEN
        IF signal.symbol \notin DOMAIN positions
        THEN [can |-> FALSE, reason |-> "No position to sell"]
        ELSE [can |-> TRUE, reason |-> ""]
    ELSE [can |-> FALSE, reason |-> "Invalid action"]

\* canExecuteSignal(signal, capital, openPositions).  positionValue is
\* capital * positionSize / 100; q and r are its whole and fractional part.
canExecuteSignal(cfg, signal, cap, positions) ==
    IF signal.action = "HOLD" THEN [can |-> FALSE, reason |-> "HOLD signal"]
    ELSE IF signal.action = "BUY" THEN
        IF signal.symbol \in DOMAIN positions
        THEN [can |-> FALSE, reason |-> "Already have position"]
        ELSE LET q == (cap * cfg.positionSize) \div 100
                 r == (cap * cfg.positionSize) % 100
                 positionValueAboveCapital == q > cap \/ (q = cap /\ r > 0)
             IN IF positionValueAboveCapital
                THEN [can |-> FALSE, reason |-> "Insufficient capital"]
                ELSE [can |-> TRUE, reason |-> ""]
    ELSE IF signal.action = "SELL" THEN
        IF signal.symbol \notin DOMAIN positions
        THEN [can |-> FALSE, reason |-> "No position to sell"]
        ELSE [can |-> TRUE, reason |-> ""]
    ELSE [can |-> FALSE, reason |-> "Invalid action"]

\* x * (1 - pct/100) with "(pct || 0.05)": no slippage taken for the default
MinusPctDefaulting(v, pct) == v - (v * (IF pct = 0 THEN 5 ELSE pct)) \div PctDen

\* x * (1 + pct/100) and x * (1 - pct/100), pct in 1/PctScale percent
PlusPct(v, pct) == v + (v * pct) \div PctDen
MinusPct(v, pct) == v - (v * pct) \div PctDen

\* The position size with Math.round in place of Math.floor
positionQuantityRounded(cfg, cap, priceWithSlippage) ==
    LET whole == (cap * cfg.positionSize) \div (100 * priceWithSlippage)
        rest == (cap * cfg.positionSize) % (100 * priceWithSlippage)
    IN IF 2 * rest >= 100 * priceWithSlippage THEN whole + 1 ELSE whole

\* executeTrade, "Calculate position size":
\* Math.floor(capital * positionSize / 100 / priceWithSlippage)
positionQuantity(cfg, cap, priceWithSlippage) ==
    (cap * cfg.positionSize) \div (100 * priceWithSlippage)

\* executeTrade without its "if (quantity === 0) return null"
executeTradeWithoutZeroGuard(cfg, signal, date, cap, positions) ==
    LET tradeId == <<signal.symbol, date>>
    IN
    IF signal.action = "BUY" THEN
        LET priceWithSlippage == PlusPct(signal.targetPrice, cfg.slippage)
            quantity == positionQuantity(cfg, cap, priceWithSlippage)
            commission == (priceWithSlippage * quantity * cfg.commission) \div PctDen
        IN [trade |-> << [id |-> tradeId, date |-> date,
                          symbol |-> signal.symbol, action |-> "BUY",
                          price |-> priceWithSlippage, quantity |-> quantity,
                          commission |-> commission, pnl |-> 0,
                          hasPnl |-> FALSE, reason |-> signal.reason] >>,
            positions |->
               [s \in DOMAIN positions \cup {signal.symbol} |->
                   IF s = signal.symbol
                   THEN [symbol |-> signal.symbol, quantity |-> quantity,
                         entryPrice |-> priceWithSlippage,
                         entryDate |-> date, entryId |-> tradeId]
                   ELSE positions[s]]]
    ELSE IF signal.action = "SELL" THEN
        IF signal.symbol \notin DOMAIN positions
        THEN [trade |-> << >>, positions |-> positions]
        ELSE
        LET position == positions[signal.symbol]
            exitPrice == MinusPct(signal.targetPrice, cfg.slippage)
            commission == (exitPrice * position.quantity * cfg.commission) \div PctDen
            pnl == (exitPrice - position.entryPrice) * position.quantity
        IN [trade |-> << [id |-> tradeId \o <<"exit">>, date |-> date,
                          symbol |-> signal.symbol, action |-> "SELL",
                          price |-> exitPrice, quantity |-> position.quantity,
                          commission |-> commission, pnl |-> pnl - commission * 2,
                          hasPnl |-> TRUE, reason |-> signal.reason] >>,
            positions |-> [s \in DOMAIN positions \ {signal.symbol} |-> positions[s]]]
    ELSE [trade |-> << >>, positions |-> positions]

\* executeTrade(signal, date, capital, openPositions, existingTrades):
\* trade is << >> (null) or <<trade>>; positions is the map it leaves.
\* Strategy signals have a non-zero targetPrice, so priceWithSlippage is
\* non-zero.  pnlPercent is not modelled.
executeTrade(cfg, signal, date, cap, positions) ==
    LET tradeId == <<signal.symbol, date>>
    IN
    IF signal.action = "BUY" THEN
        LET priceWithSlippage == PlusPct(signal.targetPrice, cfg.slippage)
            quantity == positionQuantity(cfg, cap, priceWithSlippage)
            commission == (priceWithSlippage * quantity * cfg.commission) \div PctDen
        IN IF quantity = 0 THEN [trade |-> << >>, positions |-> positions]
           ELSE [trade |-> << [id |-> tradeId, date |-> date,
                               symbol |-> signal.symbol, action |-> "BUY",
                               price |-> priceWithSlippage, quantity |-> quantity,
                               commission |-> commission, pnl |-> 0,
                               hasPnl |-> FALSE, reason |-> signal.reason] >>,
                 positions |->
                    [s \in DOMAIN positions \cup {signal.symbol} |->
                        IF s = signal.symbol
                        THEN [symbol |-> signal.symbol, quantity |-> quantity,
                              entryPrice |-> priceWithSlippage,
                              entryDate |-> date, entryId |-> tradeId]
                        ELSE positions[s]]]
    ELSE IF signal.action = "SELL" THEN
        IF signal.symbol \notin DOMAIN positions
        THEN [trade |-> << >>, positions |-> positions]
        ELSE
        LET position == positions[signal.symbol]
            exitPrice == MinusPct(signal.targetPrice, cfg.slippage)
            commission == (exitPrice * position.quantity * cfg.commission) \div PctDen
            pnl == (exitPrice - position.entryPrice) * position.quantity
        IN [trade |-> << [id |-> tradeId \o <<"exit">>, date |-> date,
                          symbol |-> signal.symbol, action |-> "SELL",
                          price |-> exitPrice, quantity |-> position.quantity,
                          commission |-> commission, pnl |-> pnl - commission * 2,
                          hasPnl |-> TRUE, reason |-> signal.reason] >>,
            positions |-> [s \in DOMAIN positions \ {signal.symbol} |-> positions[s]]]
    ELSE [trade |-> << >>, positions |-> positions]

\* Capital after a trade (simulateTrading, "Update capital based on trade")
CapitalAfterTrade(cap, trade) ==
    IF trade.action = "BUY" THEN cap - (trade.price * trade.quantity + trade.commission)
    ELSE IF trade.action = "SELL" /\ trade.hasPnl
         THEN cap + trade.price * trade.quantity - trade.commission + trade.pnl
    ELSE cap

\* "Update open positions with current market prices": for every open position
\* whose symbol has a snapshot today, capital += positionValue - quantity * entryPrice
RECURSIVE MarkToMarket(_, _, _, _)
MarkToMarket(cap, positions, marketData, todo) ==
    IF todo = {} THEN cap
    ELSE LET symbol == CHOOSE s \in todo : TRUE
             position == positions[symbol]
             found == SelectSeq(marketData, LAMBDA md : md.symbol = symbol)
             delta == IF found = << >> THEN 0
                      ELSE position.quantity * Head(found).price * MoneyScale
                           - position.quantity * position.entryPrice
         IN MarkToMarket(cap + delta, positions, marketData, todo \ {symbol})

\* ------------------------------------------------------------ the summary
\* A quotient a / b of calculateMetrics, kept exact as numerator and
\* denominator; the code only divides by a non-zero b except where noted.
Ratio(a, b) == [num |-> a, den |-> b]

RECURSIVE GCD(_, _)
GCD(a, b) == IF b = 0 THEN a ELSE GCD(b, a % b)

\* A quotient in lowest terms with a positive denominator (den # 0): two
\* quotients are the same number exactly when their lowest terms are equal
LowestTerms(r) ==
    LET g == GCD(Abs(r.num), Abs(r.den))
        sign == IF r.den < 0 THEN -1 ELSE 1
    IN [num |-> sign * (r.num \div g), den |-> sign * (r.den \div g)]

\* (a / b) * 100 as an exact quotient, the factor 100 cancelled against b
\* where it can be
Percent(a, b) ==
    LET g == GCD(100, Abs(b))
    IN IF b = 0 THEN Ratio(a * 100, 0) ELSE Ratio(a * (100 \div g), b \div g)

\* trades.filter(t => t.action === 'SELL' && t.pnl !== undefined) written
\* without the filter
completedTradesWithOpen(trades_) == trades_

\* trades.filter(t => t.action === 'SELL' && t.pnl !== undefined)
completedTrades(trades_) ==
    SelectSeq(trades_, LAMBDA t : t.action = "SELL" /\ t.hasPnl)

PnlOf(trades_) == [i \in DOMAIN trades_ |-> trades_[i].pnl]

\* grossProfit / grossLoss without the "grossLoss !== 0" fallback
profitFactorUnguarded(grossProfit, grossLoss) == Ratio(grossProfit, grossLoss)

\* grossLoss !== 0 ? grossProfit / grossLoss : 0
profitFactor(grossProfit, grossLoss) ==
    IF grossLoss # 0 THEN Ratio(grossProfit, grossLoss) ELSE Ratio(0, 1)

\* stdDev !== 0 ? (avgReturn / stdDev) * Math.sqrt(252) : 0, by its cases:
\*   "NaN"  no daily return (avgReturn is 0 / 0), or a daily return that is
\*          itself a division by 0: stdDev is NaN, NaN !== 0 holds, and the
\*          quotient is NaN;
\*   "0"    all daily returns are 0, or one or two equal ones: every
\*          r - avgReturn is exactly 0, stdDev is 0, the fallback is taken;
\*   "rounding"  three or more equal non-zero daily returns: whether the
\*          floating-point sum divided by the count gives back the value, and
\*          so whether stdDev is 0, depends on the rounding of the sum;
\*   otherwise the annualised quotient of a non-zero stdDev.
sharpeRatio(dailyReturns_) ==
    IF dailyReturns_ = << >> \/ \E i \in DOMAIN dailyReturns_ : dailyReturns_[i].den = 0
    THEN "NaN"
    ELSE IF \A i \in DOMAIN dailyReturns_ :
                LowestTerms(dailyReturns_[i]) = LowestTerms(dailyReturns_[1])
    THEN IF dailyReturns_[1].num = 0 \/ Len(dailyReturns_) <= 2 THEN "0" ELSE "rounding"
    ELSE "avgReturn / stdDev * sqrt(252)"

RECURSIVE MaxOf(_, _)
MaxOf(s, least) == IF s = << >> THEN least ELSE MaxOf(Tail(s), Max(Head(s), least))

\* calculateMetrics(simulationResult)
calculateMetrics(cfg, trades_, equity_, dailyReturns_) ==
    LET completed == completedTrades(trades_)
        winningTrades == SelectSeq(completed, LAMBDA t : t.pnl > 0)
        losingTrades == SelectSeq(completed, LAMBDA t : t.pnl < 0)
        totalPnL == SumSeq(PnlOf(completed))
        grossProfit == SumSeq(PnlOf(winningTrades))
        grossLoss == Abs(SumSeq(PnlOf(losingTrades)))
        finalCapital == IF Len(equity_) > 0 THEN equity_[Len(equity_)].value
                        ELSE cfg.initialCapital
        maxDrawdown == MaxOf([i \in DOMAIN equity_ |-> equity_[i].drawdown], 0)
    IN [totalTrades |-> Len(completed),
        winningTrades |-> Len(winningTrades),
        losingTrades |-> Len(losingTrades),
        winRate |-> IF Len(completed) > 0
                    THEN Ratio(Len(winningTrades) * 100, Len(completed))
                    ELSE Ratio(0, 1),
        totalPnL |-> totalPnL,
        returnPercent |-> Percent(finalCapital - cfg.initialCapital,
                                  cfg.initialCapital),
        maxDrawdown |-> maxDrawdown,
        maxDrawdownPercent |-> Percent(maxDrawdown, cfg.initialCapital),
        sharpeRatio |-> sharpeRatio(dailyReturns_),
        profitFactor |-> profitFactor(grossProfit, grossLoss),
        averageWin |-> IF Len(winningTrades) > 0
                       THEN Ratio(grossProfit, Len(winningTrades)) ELSE Ratio(0, 1),
        averageLoss |-> IF Len(losingTrades) > 0
                        THEN Ratio(SumSeq(PnlOf(losingTrades)), Len(losingTrades))
                        ELSE Ratio(0, 1),
        largestWin |-> IF Len(winningTrades) > 0
                       THEN MaxOf(PnlOf(winningTrades), 0) ELSE 0,
        largestLoss |-> IF Len(losingTrades) > 0
                        THEN -MaxOf([i \in DOMAIN losingTrades |-> -losingTrades[i].pnl], 0)
                        ELSE 0,
        finalCapital |-> finalCapital]

\* ------------------------------------------------------------- the inputs
\* Close prices of the provider's series.
\* Dip: a decline with one uptick, then flat, then a jump (RSI 25, then 78.69).
ShapeDip == <<59, 58, 57, 56, 57>> \o [i \in 1..16 |-> 57] \o <<63, 63, 64, 64>>
\* Rally: as Dip with a larger jump.
ShapeRally == <<59, 58, 57, 56, 57>> \o [i \in 1..16 |-> 57] \o <<66, 66, 60, 60>>
\* Slip: as Dip with one more downtick before the jump.
ShapeSlip == <<59, 58, 57, 56, 57>> \o [i \in 1..15 |-> 57] \o <<56, 63, 63, 64, 64>>
\* Down: strictly decreasing (RSI 0).  Up: strictly increasing (RSI 100).
ShapeDown == [i \in 1..25 |-> 61 - i]
ShapeUp == [i \in 1..25 |-> 29 + i]
\* Cross: strictly decreasing, a jump above the 20-day average, a fall below it.
ShapeCross == [i \in 1..21 |-> 51 - i] \o <<45, 35, 35, 34>>
\* Sag: one fall, flat, an uptick above the 20-day average, a close below it.
ShapeSag == <<50>> \o [i \in 1..18 |-> 30] \o <<33, 31, 31>>
\* Surge: one rise, flat, a downtick below the 20-day average, a close above it.
ShapeSurge == <<30>> \o [i \in 1..18 |-> 50] \o <<47, 50, 50>>

\* A series: shape's closes on the days firstDay, firstDay + stride, ..., each
\* point stamped timeOfDay ticks after midnight, cut to MaxPoints points.
Series(shape, firstDay, stride, timeOfDay) ==
    [i \in 1..Min(Len(shape), MaxPoints) |->
        [date |-> (firstDay + (i - 1) * stride) * TicksPerDay + timeOfDay,
         close |-> shape[i]]]

Fetched(data) == [ok |-> TRUE, data |-> data, fromProvider |-> TRUE]
\* getHistoricalData rejected, with the error it rejected with
Unavailable(message) == [ok |-> FALSE, data |-> << >>, error |-> message]

\* generateMockHistoricalData: the series the client makes up
MockHistoricalData == Series(ShapeUp, 1, 1, 0)
Mocked == [ok |-> TRUE, data |-> MockHistoricalData, fromProvider |-> FALSE]

\* What the provider answers to the 'historical' request of the HTTP client:
\* a status with, for a 2xx status, the parsed body
Answer(status, success, data, message) ==
    [status |-> status, success |-> success, data |-> data, error |-> message]

\* makeRequest: the error of a response that is not ok
RequestFailed(status) ==
    CASE status = 401 -> "MCP request failed: 401 Unauthorized - "
      [] status = 403 -> "MCP request failed: 403 Forbidden - "
      [] status = 404 -> "MCP request failed: 404 Not Found - "
      [] OTHER -> "MCP request failed: 500 Internal Server Error - "

\* error.message.includes('Invalid session') || includes('404') ||
\* includes('401') || includes('403'), over the messages above and the
\* provider's own
IncludesAuthFailure(message) ==
    message \in {RequestFailed(401), RequestFailed(403), RequestFailed(404),
                 "Invalid session"}

\* getHistoricalData of the HTTP client: what the call settles with
getHistoricalData(mockMode, answer) ==
    LET thrown ==
            IF answer.status \notin 200..299 THEN RequestFailed(answer.status)
            ELSE IF answer.error # "" THEN answer.error
            ELSE "Failed to fetch historical data"
    IN IF mockMode THEN Mocked
       ELSE IF answer.status \in 200..299 /\ answer.success /\ answer.data # << >>
       THEN Fetched(answer.data)
       ELSE IF IncludesAuthFailure(thrown) THEN Mocked
       ELSE Unavailable(thrown)

\* What the market-data provider answers for each symbol.
Feeds ==
    { [A |-> Fetched(Series(ShapeDip, 1, 1, 0)), B |-> Fetched(Series(ShapeUp, 1, 1, 0))],
      [A |-> Fetched(Series(ShapeRally, 1, 1, 0)), B |-> Fetched(Series(ShapeDown, 3, 1, 0))],
      [A |-> Fetched(Series(ShapeCross, 1, 1, 1)), B |-> Fetched(Series(ShapeDip, 1, 1, 1))],
      [A |-> Fetched(Series(ShapeDip, 1, 2, 0)), B |-> Fetched(Series(ShapeCross, 2, 2, 1))],
      [A |-> Fetched(Series(ShapeSlip, 1, 1, 1)), B |-> Fetched(Series(ShapeUp, 1, 1, 1))],
      [A |-> Fetched(Series(ShapeRally, 1, 1, 0)), B |-> Fetched(Series(ShapeSlip, 1, 1, 1))],
      [A |-> Fetched(Series(ShapeUp, 1, 1, 0)), B |-> Fetched(Series(ShapeDown, 1, 1, 0))],
      [A |-> Fetched(Series(ShapeSag, 1, 1, 1)), B |-> Fetched(Series(ShapeSurge, 1, 1, 1))],
      [A |-> Fetched(<< >>), B |-> Fetched(<< >>)],
      [A |-> getHistoricalData(FALSE, Answer(200, TRUE, Series(ShapeDip, 1, 1, 0), "")),
       B |-> getHistoricalData(FALSE, Answer(401, FALSE, << >>, ""))],
      [A |-> getHistoricalData(FALSE, Answer(200, FALSE, << >>, "Invalid session")),
       B |-> getHistoricalData(FALSE, Answer(200, TRUE, Series(ShapeUp, 1, 1, 0), ""))],
      [A |-> getHistoricalData(FALSE, Answer(500, FALSE, << >>, "")),
       B |-> getHistoricalData(FALSE, Answer(404, FALSE, << >>, ""))],
      [A |-> Fetched(Series(ShapeDip, 1, 1, 0)), B |-> Unavailable("Request timeout")],
      [A |-> Unavailable("Unexpected end of JSON input"), B |-> Fetched(Series(ShapeUp, 1, 1, 0))] }

BaseConfig ==
    [symbols |-> <<"A", "B">>, strategy |-> "both", startDate |-> 0, endDate |-> 60,
     initialCapital |-> 1500 * MoneyScale, positionSize |-> 10,
     commission |-> 0, slippage |-> 0]

Configs ==
    { BaseConfig,
      [BaseConfig EXCEPT !.commission = 10],
      [BaseConfig EXCEPT !.slippage = 10],
      [BaseConfig EXCEPT !.strategy = "mean_reversion"],
      [BaseConfig EXCEPT !.strategy = "momentum", !.symbols = <<"B", "A">>],
      [BaseConfig EXCEPT !.symbols = <<"A">>, !.commission = 10],
      [BaseConfig EXCEPT !.initialCapital = 60 * MoneyScale, !.positionSize = 100],
      [BaseConfig EXCEPT !.initialCapital = 60 * MoneyScale, !.positionSize = 150],
      [BaseConfig EXCEPT !.initialCapital = 500 * MoneyScale],
      [BaseConfig EXCEPT !.initialCapital = 599 * (MoneyScale \div 10),
                         !.positionSize = 100, !.commission = 10],
      [BaseConfig EXCEPT !.symbols = <<"A", "A">>] }

InvalidConfigs ==
    { [BaseConfig EXCEPT !.symbols = << >>],
      [BaseConfig EXCEPT !.startDate = 60],
      [BaseConfig EXCEPT !.startDate = 61],
      [BaseConfig EXCEPT !.strategy = "scalping"],
      [BaseConfig EXCEPT !.strategy = "scalping", !.symbols = << >>] }

\* ------------------------------------------------------------ the request
\* The numeric fields of the body of POST /api/backtest.  A body is a function
\* from the fields it supplies to their values: initialCapital in currency
\* units, positionSize in percent, commission and slippage in 1/PctScale
\* percent.
NumericFields == {"initialCapital", "positionSize", "commission", "slippage"}

DefaultInitialCapital == 100000
DefaultPositionSize == 10
DefaultCommission == 10
DefaultSlippage == 5

\* body.field || fallback: the fallback replaces a missing field and every
\* falsy value, of the numbers 0
OrDefault(body, field, fallback) ==
    IF field \in DOMAIN body /\ body[field] # 0 THEN body[field] ELSE fallback

\* POST: "Validate and parse config", the numeric fields
ParseConfig(body) ==
    [initialCapital |-> OrDefault(body, "initialCapital", DefaultInitialCapital),
     positionSize |-> OrDefault(body, "positionSize", DefaultPositionSize),
     commission |-> OrDefault(body, "commission", DefaultCommission),
     slippage |-> OrDefault(body, "slippage", DefaultSlippage)]

\* new Backtester(config): { commission: 0.1, slippage: 0.05, ...config }
BacktesterConfig(cfg) ==
    [f \in DOMAIN cfg \cup {"commission", "slippage"} |->
        IF f \in DOMAIN cfg THEN cfg[f]
        ELSE IF f = "commission" THEN DefaultCommission ELSE DefaultSlippage]

\* Bodies supplying any subset of the numeric fields
SampleBodies ==
    UNION {[supplied -> {0, 5, 10, 150}] : supplied \in SUBSET NumericFields}

NoRun == [pc |-> "NONE"]
NoCall == [pc |-> "NONE"]
NoRequest == [pc |-> "NONE"]
EmptyPortfolio == [capital |-> 0, positions |-> << >>, trades |-> << >>, totalPnL |-> 0]

\* ------------------------------------------------------------------ state
VARIABLES
    config,            \* BacktestConfig
    feed,              \* the provider's answer per symbol
    pc,                \* where the run is
    error,             \* the error the run failed with, "" if none
    symbolIdx,         \* fetchHistoricalData: next symbol to fetch
    historicalData,    \* dataMap: symbol -> series
    allDates,          \* simulateTrading: the dates to simulate
    dateIdx,           \* index of the current date in allDates
    dayStartCapital,
    marketDataForDay,
    daySignals,
    sigIdx,            \* index of the next signal of daySignals
    capital,
    openPositions,     \* symbol -> Position
    peakCapital,
    trades,
    equity,
    signals,
    dailyReturns,
    result,            \* << >>, or <<BacktestResult>>
    deadlineElapsed,   \* the time allowed to the request has passed
    other,             \* a second run of the same process
    kvPortfolio,       \* the portfolio stored under the key 'portfolio'
    call,              \* the PaperTrader call in progress
    request            \* the makeRequest call of the MCP client

vars == <<config, feed, pc, error, symbolIdx, historicalData, allDates, dateIdx,
          dayStartCapital, marketDataForDay, daySignals, sigIdx, capital,
          openPositions, peakCapital, trades, equity, signals, dailyReturns, result,
          deadlineElapsed, other, kvPortfolio, call, request>>

\* The state outside the run of the Backtester
restVars == <<deadlineElapsed, other, kvPortfolio, call, request>>

\* The state of the run of the Backtester
runVars == <<config, feed, pc, error, symbolIdx, historicalData, allDates, dateIdx,
             dayStartCapital, marketDataForDay, daySignals, sigIdx, capital,
             openPositions, peakCapital, trades, equity, signals, dailyReturns, result>>

simVars == <<allDates, dateIdx, dayStartCapital, marketDataForDay, daySignals,
             sigIdx, capital, openPositions, peakCapital, trades, equity,
             signals, dailyReturns>>

EmptyMap == [s \in {} |-> 0]

\* A run that is about to start
InitRun ==
    /\ pc = "INIT"
    /\ error = ""
    /\ symbolIdx = 1
    /\ historicalData = EmptyMap
    /\ allDates = << >>
    /\ dateIdx = 1
    /\ dayStartCapital = 0
    /\ marketDataForDay = << >>
    /\ daySignals = << >>
    /\ sigIdx = 1
    /\ capital = 0
    /\ openPositions = EmptyMap
    /\ peakCapital = 0
    /\ trades = << >>
    /\ equity = << >>
    /\ signals = << >>
    /\ dailyReturns = << >>
    /\ result = << >>

\* No second run, no PaperTrader call, no request, no deadline passed
InitRest ==
    /\ deadlineElapsed = FALSE
    /\ other = NoRun
    /\ kvPortfolio = EmptyPortfolio
    /\ call = NoCall
    /\ request = NoRequest

Init ==
    /\ config \in Configs \cup InvalidConfigs
    /\ feed \in Feeds
    /\ InitRun
    /\ InitRest

\* ---------------------------------------------------------------- actions
\* POST without the "Validate strategy" block
ValidateConfigWithoutStrategy ==
    /\ pc = "INIT"
    /\ IF config.startDate >= config.endDate
       THEN pc' = "FAILED" /\ error' = "Invalid date range: startDate must be before endDate"
       ELSE IF Len(config.symbols) = 0
       THEN pc' = "FAILED" /\ error' = "At least one symbol is required"
       ELSE pc' = "FETCHING" /\ error' = error
    /\ UNCHANGED <<config, feed, symbolIdx, historicalData, simVars, result>>
    /\ UNCHANGED restVars

\* POST (route.ts): the three validations of the BacktestConfig, then
\* new Backtester(config).run().  config is the BacktestConfig the Backtester
\* is constructed with.
ValidateConfig ==
    /\ pc = "INIT"
    /\ IF config.startDate >= config.endDate
       THEN pc' = "FAILED" /\ error' = "Invalid date range: startDate must be before endDate"
       ELSE IF Len(config.symbols) = 0
       THEN pc' = "FAILED" /\ error' = "At least one symbol is required"
       ELSE IF config.strategy \notin {"mean_reversion", "momentum", "both"}
       THEN pc' = "FAILED" /\ error' = "Invalid strategy: must be mean_reversion, momentum, or both"
       ELSE pc' = "FETCHING" /\ error' = error
    /\ UNCHANGED <<config, feed, symbolIdx, historicalData, simVars, result>>
    /\ UNCHANGED restVars

\* fetchHistoricalData with a catch that logs the failure and goes on to the
\* next symbol instead of rethrowing
FetchSymbolSkippingFailure ==
    /\ pc = "FETCHING"
    /\ symbolIdx <= Len(config.symbols)
    /\ LET symbol == config.symbols[symbolIdx]
       IN IF feed[symbol].ok
          THEN historicalData' =
                    [s \in DOMAIN historicalData \cup {symbol} |->
                        IF s = symbol THEN feed[symbol].data ELSE historicalData[s]]
          ELSE UNCHANGED historicalData
    /\ symbolIdx' = symbolIdx + 1
    /\ UNCHANGED <<pc, error, config, feed, simVars, result>>
    /\ UNCHANGED restVars

\* fetchHistoricalData whose failure makes run() answer with an empty result
\* next to the error
FetchSymbolReturningEmptyResult ==
    /\ pc = "FETCHING"
    /\ symbolIdx <= Len(config.symbols)
    /\ LET symbol == config.symbols[symbolIdx]
       IN IF feed[symbol].ok
          THEN /\ historicalData' =
                    [s \in DOMAIN historicalData \cup {symbol} |->
                        IF s = symbol THEN feed[symbol].data ELSE historicalData[s]]
               /\ symbolIdx' = symbolIdx + 1
               /\ UNCHANGED <<pc, error, result>>
          ELSE /\ pc' = "FAILED"
               /\ error' = feed[symbol].error
               /\ result' = << [config |-> config,
                                summary |-> calculateMetrics(config, << >>, << >>, << >>),
                                trades |-> << >>, equity |-> << >>,
                                signals |-> << >>, dailyReturns |-> << >>] >>
               /\ UNCHANGED <<historicalData, symbolIdx>>
    /\ UNCHANGED <<config, feed, simVars>>
    /\ UNCHANGED restVars

\* fetchHistoricalData: one iteration of the loop over config.symbols; a
\* rejected getHistoricalData is rethrown and run() rejects with it.
FetchSymbol ==
    /\ pc = "FETCHING"
    /\ symbolIdx <= Len(config.symbols)
    /\ LET symbol == config.symbols[symbolIdx]
       IN IF feed[symbol].ok
          THEN /\ historicalData' =
                    [s \in DOMAIN historicalData \cup {symbol} |->
                        IF s = symbol THEN feed[symbol].data ELSE historicalData[s]]
               /\ symbolIdx' = symbolIdx + 1
               /\ UNCHANGED <<pc, error>>
          ELSE /\ pc' = "FAILED"
               /\ error' = feed[symbol].error
               /\ UNCHANGED <<historicalData, symbolIdx>>
    /\ UNCHANGED <<config, feed, simVars, result>>
    /\ UNCHANGED restVars

\* simulateTrading up to its loop: the run's locals
StartSimulation ==
    /\ pc = "FETCHING"
    /\ symbolIdx > Len(config.symbols)
    /\ pc' = "DAY"
    /\ capital' = config.initialCapital
    /\ peakCapital' = config.initialCapital
    /\ openPositions' = EmptyMap
    /\ allDates' = getAllTradingDates(historicalData)
    /\ dateIdx' = 1
    /\ trades' = << >> /\ equity' = << >> /\ signals' = << >> /\ dailyReturns' = << >>
    /\ UNCHANGED <<config, feed, error, symbolIdx, historicalData, dayStartCapital,
                   marketDataForDay, daySignals, sigIdx, result>>
    /\ UNCHANGED restVars

\* One date of the loop, up to the signals of the day
StartDay ==
    /\ pc = "DAY"
    /\ dateIdx <= Len(allDates)
    /\ LET date == allDates[dateIdx]
           md == MarketDataForDay(config.symbols, historicalData, date)
       IN /\ marketDataForDay' = md
          /\ daySignals' = generateSignals(md)
    /\ dayStartCapital' = capital
    /\ sigIdx' = 1
    /\ pc' = "SIGNAL"
    /\ UNCHANGED <<config, feed, error, symbolIdx, historicalData, allDates, dateIdx,
                   capital, openPositions, peakCapital, trades, equity, signals,
                   dailyReturns, result>>
    /\ UNCHANGED restVars

\* The body of the signal loop without the "if (canExecute.can)" test
processSignalUnchecked(cfg, signal, date, cap, positions) ==
    LET exec == executeTrade(cfg, signal, date, cap, positions)
    IN [capital |-> IF exec.trade = << >> THEN cap
                    ELSE CapitalAfterTrade(cap, Head(exec.trade)),
        positions |-> exec.positions,
        trade |-> exec.trade,
        record |-> [date |-> date, symbol |-> signal.symbol, signal |-> signal,
                    executed |-> exec.trade # << >>, reason |-> ""]]

\* The body of the signal loop setting executed as soon as canExecute.can
processSignalMarkingAttempts(cfg, signal, date, cap, positions) ==
    LET canExecute == canExecuteSignal(cfg, signal, cap, positions)
        exec == executeTrade(cfg, signal, date, cap, positions)
    IN IF canExecute.can
       THEN [capital |-> IF exec.trade = << >> THEN cap
                         ELSE CapitalAfterTrade(cap, Head(exec.trade)),
             positions |-> exec.positions,
             trade |-> exec.trade,
             record |-> [date |-> date, symbol |-> signal.symbol, signal |-> signal,
                         executed |-> TRUE, reason |-> ""]]
       ELSE [capital |-> cap,
             positions |-> positions,
             trade |-> << >>,
             record |-> [date |-> date, symbol |-> signal.symbol, signal |-> signal,
                         executed |-> FALSE, reason |-> canExecute.reason]]

\* The body of "for (const signal of daySignals)": what one signal leaves
processSignal(cfg, signal, date, cap, positions) ==
    LET canExecute == canExecuteSignal(cfg, signal, cap, positions)
        exec == executeTrade(cfg, signal, date, cap, positions)
    IN IF canExecute.can
       THEN [capital |-> IF exec.trade = << >> THEN cap
                         ELSE CapitalAfterTrade(cap, Head(exec.trade)),
             positions |-> exec.positions,
             trade |-> exec.trade,
             record |-> [date |-> date, symbol |-> signal.symbol, signal |-> signal,
                         executed |-> exec.trade # << >>, reason |-> ""]]
       ELSE [capital |-> cap,
             positions |-> positions,
             trade |-> << >>,
             record |-> [date |-> date, symbol |-> signal.symbol, signal |-> signal,
                         executed |-> FALSE, reason |-> canExecute.reason]]

\* The signal loop taking the signals of the day last to first
ProcessSignalLastFirst ==
    /\ pc = "SIGNAL"
    /\ sigIdx <= Len(daySignals)
    /\ LET out == processSignal(config, daySignals[Len(daySignals) + 1 - sigIdx],
                                allDates[dateIdx], capital, openPositions)
       IN /\ capital' = out.capital
          /\ openPositions' = out.positions
          /\ trades' = trades \o out.trade
          /\ signals' = Append(signals, out.record)
    /\ sigIdx' = sigIdx + 1
    /\ UNCHANGED <<config, feed, pc, error, symbolIdx, historicalData, allDates, dateIdx,
                   dayStartCapital, marketDataForDay, daySignals, peakCapital, equity,
                   dailyReturns, result>>
    /\ UNCHANGED restVars

\* One iteration of "for (const signal of daySignals)"
ProcessSignal ==
    /\ pc = "SIGNAL"
    /\ sigIdx <= Len(daySignals)
    /\ LET out == processSignal(config, daySignals[sigIdx], allDates[dateIdx],
                                capital, openPositions)
       IN /\ capital' = out.capital
          /\ openPositions' = out.positions
          /\ trades' = trades \o out.trade
          /\ signals' = Append(signals, out.record)
    /\ sigIdx' = sigIdx + 1
    /\ UNCHANGED <<config, feed, pc, error, symbolIdx, historicalData, allDates, dateIdx,
                   dayStartCapital, marketDataForDay, daySignals, peakCapital, equity,
                   dailyReturns, result>>
    /\ UNCHANGED restVars

\* The rest of the date with a "continue" for a date without snapshots ahead
\* of the equity point
EndDaySkippingIdleDates ==
    /\ pc = "SIGNAL"
    /\ sigIdx > Len(daySignals)
    /\ LET marked == MarkToMarket(capital, openPositions, marketDataForDay,
                                  DOMAIN openPositions)
           peak == Max(peakCapital, marked)
       IN IF marketDataForDay = << >>
          THEN UNCHANGED <<capital, peakCapital, equity, dailyReturns>>
          ELSE /\ capital' = marked
               /\ peakCapital' = peak
               /\ equity' = Append(equity, [date |-> allDates[dateIdx], value |-> marked,
                                            drawdown |-> peak - marked])
               /\ dailyReturns' = Append(dailyReturns,
                                     [num |-> (marked - dayStartCapital) * 100,
                                      den |-> dayStartCapital])
    /\ dateIdx' = dateIdx + 1
    /\ pc' = "DAY"
    /\ UNCHANGED <<config, feed, error, symbolIdx, historicalData, allDates,
                   dayStartCapital, marketDataForDay, daySignals, sigIdx,
                   openPositions, trades, signals, result>>
    /\ UNCHANGED restVars

\* The rest of the date: mark-to-market, the equity point, the daily return
\* ((capital - dayStartCapital) / dayStartCapital * 100, kept as num and den).
EndDay ==
    /\ pc = "SIGNAL"
    /\ sigIdx > Len(daySignals)
    /\ LET marked == MarkToMarket(capital, openPositions, marketDataForDay,
                                  DOMAIN openPositions)
           peak == Max(peakCapital, marked)
       IN /\ capital' = marked
          /\ peakCapital' = peak
          /\ equity' = Append(equity, [date |-> allDates[dateIdx], value |-> marked,
                                       drawdown |-> peak - marked])
          /\ dailyReturns' = Append(dailyReturns,
                                [num |-> (marked - dayStartCapital) * 100,
                                 den |-> dayStartCapital])
    /\ dateIdx' = dateIdx + 1
    /\ pc' = "DAY"
    /\ UNCHANGED <<config, feed, error, symbolIdx, historicalData, allDates,
                   dayStartCapital, marketDataForDay, daySignals, sigIdx,
                   openPositions, trades, signals, result>>
    /\ UNCHANGED restVars

\* simulateTrading returns: the loop over the dates is over
EndSimulation ==
    /\ pc = "DAY"
    /\ dateIdx > Len(allDates)
    /\ pc' = "SUMMARIZING"
    /\ UNCHANGED <<config, feed, error, symbolIdx, historicalData, simVars, result>>
    /\ UNCHANGED restVars

\* calculateMetrics and the BacktestResult run() returns
Summarize ==
    /\ pc = "SUMMARIZING"
    /\ pc' = "DONE"
    /\ result' = << [config |-> config,
                     summary |-> calculateMetrics(config, trades, equity, dailyReturns),
                     trades |-> trades, equity |-> equity,
                     signals |-> signals, dailyReturns |-> dailyReturns] >>
    /\ UNCHANGED <<config, feed, error, symbolIdx, historicalData, simVars>>
    /\ UNCHANGED restVars

Next ==
    \/ ValidateConfig
    \/ FetchSymbol
    \/ StartSimulation
    \/ StartDay
    \/ ProcessSignal
    \/ EndDay
    \/ EndSimulation
    \/ Summarize

Spec == Init /\ [][Next]_vars

\* ----------------------------------------------------------- PaperTrader
\* The portfolio is stored in the key-value store: every getPortfolio is a
\* kv.get that returns a copy of its own, every kv.set replaces the stored
\* value.  Prices, quantities and capital are whole numbers.
PTSymbols == {"A", "B"}

OpenPosition(id, symbol, quantity) ==
    [id |-> id, symbol |-> symbol, entryPrice |-> 100, currentPrice |-> 100,
     quantity |-> quantity, stopLoss |-> 95, targetPrice |-> 105,
     pnl |-> 0, pnlPercent |-> Ratio(0, 1), status |-> "OPEN"]

ClosedPosition(id, symbol, quantity) ==
    [OpenPosition(id, symbol, quantity) EXCEPT
        !.currentPrice = 110, !.pnl = 10 * quantity,
        !.pnlPercent = Percent(10 * quantity, 100 * quantity), !.status = "CLOSED"]

PortfolioOf(positions) ==
    [capital |-> 1000, positions |-> positions, trades |-> << >>,
     totalPnL |-> SumSeq([i \in DOMAIN positions |->
                            IF positions[i].status = "CLOSED" THEN positions[i].pnl ELSE 0])]

SamplePortfolios ==
    {PortfolioOf(<< >>),
     PortfolioOf(<<OpenPosition(1, "A", 2)>>),
     PortfolioOf(<<OpenPosition(1, "A", 2), OpenPosition(2, "B", 1)>>),
     PortfolioOf(<<ClosedPosition(1, "A", 1), OpenPosition(2, "A", 2)>>),
     PortfolioOf(<<OpenPosition(1, "B", 1), ClosedPosition(2, "B", 2),
                   OpenPosition(3, "A", 3)>>),
     PortfolioOf(<<OpenPosition(1, "A", 1), OpenPosition(2, "A", 2)>>)}

\* quotes: Record<string, number>; a symbol without a quote has the quote 0,
\* which "quotes[position.symbol]" treats like a missing one
SampleQuotes == [PTSymbols -> {0, 90, 95, 100, 105, 110}]

\* closePosition(symbol, currentPrice) on the portfolio that its getPortfolio
\* returned: the first OPEN position of the symbol is closed, or nothing is
\* found and nothing is saved
closePosition(portfolio, symbol, currentPrice) ==
    LET open == {i \in DOMAIN portfolio.positions :
                    /\ portfolio.positions[i].symbol = symbol
                    /\ portfolio.positions[i].status = "OPEN"}
    IN IF open = {} THEN [found |-> FALSE, portfolio |-> portfolio]
       ELSE LET positionIndex == CHOOSE i \in open : \A j \in open : i <= j
                position == portfolio.positions[positionIndex]
                exitValue == currentPrice * position.quantity
                entryValue == position.entryPrice * position.quantity
            IN [found |-> TRUE,
                portfolio |->
                    [portfolio EXCEPT
                        !.positions[positionIndex] =
                            [position EXCEPT !.status = "CLOSED",
                                             !.currentPrice = currentPrice,
                                             !.pnl = exitValue - entryValue,
                                             !.pnlPercent = Percent(exitValue - entryValue,
                                                                    entryValue)],
                        !.capital = @ + exitValue,
                        !.totalPnL = @ + (exitValue - entryValue)]]

\* "await this.closePosition(...)" as seen from the store: what is stored
\* after the call, given what was stored before it
StoredAfterClose(stored, symbol, currentPrice) ==
    LET closed == closePosition(stored, symbol, currentPrice)
    IN IF closed.found THEN closed.portfolio ELSE stored

\* updatePositions: const portfolio = await this.getPortfolio()
UpdatePositionsBegin ==
    /\ call.pc \in {"NONE", "RETURNED"}
    /\ \E quotes \in SampleQuotes :
        call' = [pc |-> "LOOP", quotes |-> quotes, portfolio |-> kvPortfolio,
                 idx |-> 1, updated |-> FALSE]
    /\ UNCHANGED <<kvPortfolio, runVars, deadlineElapsed, other, request>>

\* updatePositions: one iteration of "for (const position of
\* portfolio.positions)", the closePosition calls it awaits included
UpdatePositionsVisit ==
    /\ call.pc = "LOOP"
    /\ call.idx <= Len(call.portfolio.positions)
    /\ LET position == call.portfolio.positions[call.idx]
           quote == call.quotes[position.symbol]
           currentValue == quote * position.quantity
           entryValue == position.entryPrice * position.quantity
           afterStop == IF quote <= position.stopLoss
                        THEN StoredAfterClose(kvPortfolio, position.symbol, quote)
                        ELSE kvPortfolio
           afterTarget == IF quote >= position.targetPrice
                          THEN StoredAfterClose(afterStop, position.symbol, quote)
                          ELSE afterStop
       IN IF position.status = "OPEN" /\ quote # 0
          THEN /\ call' = [call EXCEPT
                            !.portfolio.positions[call.idx] =
                                [position EXCEPT
                                    !.currentPrice = quote,
                                    !.pnl = currentValue - entryValue,
                                    !.pnlPercent = Percent(currentValue - entryValue,
                                                           entryValue)],
                            !.idx = @ + 1,
                            !.updated = TRUE]
               /\ kvPortfolio' = afterTarget
          ELSE /\ call' = [call EXCEPT !.idx = @ + 1]
               /\ UNCHANGED kvPortfolio
    /\ UNCHANGED <<runVars, deadlineElapsed, other, request>>

\* updatePositions: "if (updated) await kv.set('portfolio', portfolio)" and
\* the return
UpdatePositionsSave ==
    /\ call.pc = "LOOP"
    /\ call.idx > Len(call.portfolio.positions)
    /\ kvPortfolio' = IF call.updated THEN call.portfolio ELSE kvPortfolio
    /\ call' = [call EXCEPT !.pc = "RETURNED"]
    /\ UNCHANGED <<runVars, deadlineElapsed, other, request>>

InitPaperTrader ==
    /\ config = BaseConfig
    /\ feed = CHOOSE f \in Feeds : \A s \in DOMAIN f : f[s].ok /\ f[s].data = << >>
    /\ InitRun
    /\ deadlineElapsed = FALSE
    /\ other = NoRun
    /\ kvPortfolio \in SamplePortfolios
    /\ call = NoCall
    /\ request = NoRequest

NextPaperTrader ==
    \/ UpdatePositionsBegin
    \/ UpdatePositionsVisit
    \/ UpdatePositionsSave

SpecPaperTrader == InitPaperTrader /\ [][NextPaperTrader]_vars

\* ------------------------------------------------- PaperTrader.executeTrade
\* The calls of one PaperTrader, one at a time, on the key-value store.
MaxTrades == 2

\* currentPrice of a call; a signal without stopLoss and targetPrice
PTPrices == {60, 100, 200}
PTSignals ==
    {[symbol |-> symbol, action |-> action, stopLoss |-> 0, targetPrice |-> 0] :
        symbol \in PTSymbols, action \in {"BUY", "SELL", "HOLD"}}

\* generateId(): an id no position and no trade of the portfolio has
FreshId(portfolio) ==
    1 + MaxOf([i \in DOMAIN portfolio.positions |-> portfolio.positions[i].id]
                \o [i \in DOMAIN portfolio.trades |-> portfolio.trades[i].id], 0)

\* openPosition(signal, price, quantity) on the portfolio that its
\* getPortfolio returned: the position it builds and the portfolio it saves
openPosition(portfolio, signal, price, quantity, id) ==
    LET position ==
            [id |-> id, symbol |-> signal.symbol, entryPrice |-> price,
             currentPrice |-> price, quantity |-> quantity,
             stopLoss |-> IF signal.stopLoss # 0 THEN signal.stopLoss
                          ELSE (price * 95) \div 100,
             targetPrice |-> IF signal.targetPrice # 0 THEN signal.targetPrice
                             ELSE (price * 105) \div 100,
             pnl |-> 0, pnlPercent |-> Ratio(0, 1), status |-> "OPEN"]
    IN [position |-> position,
        portfolio |-> [portfolio EXCEPT !.positions = Append(@, position),
                                        !.capital = @ - price * quantity]]

\* executeTrade up to the trade it builds: getPortfolio, the HOLD and the
\* quantity tests.  before is the stored portfolio when the call was made.
ExecuteTradeBegin ==
    /\ call.pc \in {"NONE", "EXECUTED"}
    /\ Len(kvPortfolio.trades) < MaxTrades
    /\ \E signal \in PTSignals, currentPrice \in PTPrices :
        LET portfolio == kvPortfolio
            quantity == portfolio.capital \div (10 * currentPrice)
            trade == [id |-> FreshId(portfolio), symbol |-> signal.symbol,
                      type |-> signal.action, price |-> currentPrice,
                      quantity |-> quantity, positionId |-> 0]
        IN call' = [pc |-> IF signal.action = "HOLD" \/ quantity = 0
                           THEN "EXECUTED" ELSE "TRADE",
                    signal |-> signal, currentPrice |-> currentPrice,
                    before |-> kvPortfolio, portfolio |-> portfolio,
                    trade |-> IF signal.action = "HOLD" \/ quantity = 0
                              THEN << >> ELSE <<trade>>]
    /\ UNCHANGED <<kvPortfolio, runVars, deadlineElapsed, other, request>>

\* executeTrade: "await this.openPosition(...)" or "await
\* this.closePosition(...)", each on a portfolio of its own getPortfolio
ExecuteTradePosition ==
    /\ call.pc = "TRADE"
    /\ LET trade == Head(call.trade)
           opened == openPosition(kvPortfolio, call.signal, call.currentPrice,
                                  trade.quantity, trade.id + 1)
       IN IF call.signal.action = "BUY"
          THEN /\ kvPortfolio' = opened.portfolio
               /\ call' = [call EXCEPT
                              !.pc = "SAVE",
                              !.trade = <<[trade EXCEPT
                                              !.positionId = opened.position.id]>>]
          ELSE /\ kvPortfolio' = StoredAfterClose(kvPortfolio, call.signal.symbol,
                                                  call.currentPrice)
               /\ call' = [call EXCEPT !.pc = "SAVE"]
    /\ UNCHANGED <<runVars, deadlineElapsed, other, request>>

\* executeTrade: portfolio.trades.push(trade), kv.set('portfolio',
\* portfolio) with the portfolio of its first getPortfolio, and the return
ExecuteTradeSave ==
    /\ call.pc = "SAVE"
    /\ kvPortfolio' = [call.portfolio EXCEPT !.trades = Append(@, Head(call.trade))]
    /\ call' = [call EXCEPT !.pc = "EXECUTED"]
    /\ UNCHANGED <<runVars, deadlineElapsed, other, request>>

NextExecuteTrade ==
    \/ ExecuteTradeBegin
    \/ ExecuteTradePosition
    \/ ExecuteTradeSave

SpecExecuteTrade == InitPaperTrader /\ [][NextExecuteTrade]_vars

\* ------------------------------------------------- MCPClient.makeRequest
\* One request of the HTTP client.  A message is the sequence of its parts;
\* includes() looks for a part.
RetryAttempts == 3
RetryDelay == 1000

Includes(message, text) == \E i \in DOMAIN message : message[i] = text

\* What "await fetch(...)" and the reading of the response can end with: the
\* abort of the timeout, a failure of fetch itself, a response (status, the
\* text of an error body, whether a 2xx body parses)
Aborted == [kind |-> "abort"]
FetchFailed == [kind |-> "network"]
Responded(status, errorText, parses) ==
    [kind |-> "response", status |-> status, errorText |-> errorText,
     parses |-> parses]
FetchOutcomes ==
    {Aborted, FetchFailed, Responded(200, << >>, TRUE), Responded(200, << >>, FALSE)}
        \cup {Responded(status, errorText, FALSE) :
                status \in {401, 403, 404, 500},
                errorText \in {<< >>, <<"Invalid session">>,
                               <<"upstream request: ", "fetch failed">>}}

\* The error the try block throws for an outcome: name and message
ThrownFor(outcome) ==
    IF outcome.kind = "abort"
    THEN [name |-> "AbortError", message |-> <<"This operation was aborted">>]
    ELSE IF outcome.kind = "network"
    THEN [name |-> "TypeError", message |-> <<"fetch failed">>]
    ELSE IF outcome.status \in 200..299
    THEN [name |-> "SyntaxError", message |-> <<"Unexpected end of JSON input">>]
    ELSE [name |-> "Error",
          message |-> <<RequestFailed(outcome.status)>> \o outcome.errorText]

Succeeds(outcome) ==
    outcome.kind = "response" /\ outcome.status \in 200..299 /\ outcome.parses

\* The condition of the catch block for another attempt
ShouldRetry(attempt, thrown) ==
    /\ attempt < RetryAttempts
    /\ thrown.name = "AbortError" \/ Includes(thrown.message, "fetch failed")

\* makeRequest(endpoint, payload): the first attempt
MakeRequest ==
    /\ request.pc = "NONE"
    /\ request' = [pc |-> "FETCHING", attempt |-> 1, outcomes |-> << >>,
                   waited |-> 0, error |-> << >>]
    /\ UNCHANGED <<runVars, deadlineElapsed, other, kvPortfolio, call>>

\* The try block of one attempt settles, and the catch block decides
FetchSettles ==
    /\ request.pc = "FETCHING"
    /\ \E outcome \in FetchOutcomes :
        LET thrown == ThrownFor(outcome)
        IN request' =
            [request EXCEPT
                !.outcomes = Append(@, outcome),
                !.pc = IF Succeeds(outcome) THEN "RESOLVED"
                       ELSE IF ShouldRetry(request.attempt, thrown) THEN "WAITING"
                       ELSE "REJECTED",
                !.error = IF Succeeds(outcome) \/ ShouldRetry(request.attempt, thrown)
                          THEN << >> ELSE <<thrown>>]
    /\ UNCHANGED <<runVars, deadlineElapsed, other, kvPortfolio, call>>

\* The delay retryDelay * attempt is over: makeRequest(..., attempt + 1)
RetryAfterDelay ==
    /\ request.pc = "WAITING"
    /\ request' = [request EXCEPT !.pc = "FETCHING",
                                  !.attempt = @ + 1,
                                  !.waited = @ + RetryDelay * request.attempt]
    /\ UNCHANGED <<runVars, deadlineElapsed, other, kvPortfolio, call>>

NextRequest ==
    \/ MakeRequest
    \/ FetchSettles
    \/ RetryAfterDelay

InitRequest ==
    /\ config = BaseConfig
    /\ feed = CHOOSE f \in Feeds : \A s \in DOMAIN f : f[s].ok /\ f[s].data = << >>
    /\ InitRun
    /\ InitRest

SpecRequest == InitRequest /\ [][NextRequest]_vars

\* ------------------------------------------------------------ the deadline
\* The only time limit of a backtest request is "export const maxDuration = 60"
\* of the route: nothing in POST or Backtester.run reads a clock.
\* The time allowed to the request passes while the run is under way.
DeadlineElapses ==
    /\ ~deadlineElapsed
    /\ pc \notin {"DONE", "FAILED", "TERMINATED"}
    /\ deadlineElapsed' = TRUE
    /\ UNCHANGED <<runVars, other, kvPortfolio, call, request>>

\* A hosting platform that enforces maxDuration ends the invocation where it
\* stands; one that does not lets it run on.
TerminateInvocation ==
    /\ deadlineElapsed
    /\ pc \notin {"DONE", "FAILED", "TERMINATED"}
    /\ pc' = "TERMINATED"
    /\ UNCHANGED <<config, feed, error, symbolIdx, historicalData, simVars, result,
                   restVars>>

InitDeadline ==
    /\ config \in {BaseConfig, [BaseConfig EXCEPT !.strategy = "scalping"]}
    /\ feed \in {f \in Feeds : \A s \in DOMAIN f : f[s].ok /\ f[s].fromProvider}
    /\ InitRun
    /\ InitRest

NextDeadline ==
    \/ Next
    \/ DeadlineElapses
    \/ TerminateInvocation

SpecDeadline == InitDeadline /\ [][NextDeadline]_vars

\* ------------------------------------------------------ a concurrent run
\* A second POST served by the same process while the first run is under way.
\* It has its own Backtester (config) and its own locals of simulateTrading;
\* it shares the provider (feed) and the risk manager, whose fields are never
\* written.  Its steps are the stretches between two awaits.

\* "for (const signal of daySignals)" on the locals of one run
RECURSIVE processSignals(_, _, _, _)
processSignals(cfg, sigs, date, st) ==
    IF sigs = << >> THEN st
    ELSE LET out == processSignal(cfg, Head(sigs), date, st.capital, st.openPositions)
         IN processSignals(cfg, Tail(sigs), date,
                [st EXCEPT !.capital = out.capital,
                           !.openPositions = out.positions,
                           !.trades = @ \o out.trade,
                           !.signals = Append(@, out.record)])

\* One iteration of "for (const date of allDates)" on the locals of one run
simulateDate(cfg, hd, date, st) ==
    LET md == MarketDataForDay(cfg.symbols, hd, date)
        after == processSignals(cfg, generateSignals(md), date, st)
        marked == MarkToMarket(after.capital, after.openPositions, md,
                               DOMAIN after.openPositions)
        peak == Max(st.peakCapital, marked)
    IN [after EXCEPT
            !.capital = marked,
            !.peakCapital = peak,
            !.equity = Append(@, [date |-> date, value |-> marked,
                                  drawdown |-> peak - marked]),
            !.dailyReturns = Append(@, [num |-> (marked - st.capital) * 100,
                                        den |-> st.capital])]

\* The locals of simulateTrading before its loop
simulationStart(cfg) ==
    [capital |-> cfg.initialCapital, openPositions |-> EmptyMap,
     peakCapital |-> cfg.initialCapital, trades |-> << >>, equity |-> << >>,
     signals |-> << >>, dailyReturns |-> << >>]

NewRun(cfg) ==
    [pc |-> "FETCHING", config |-> cfg, symbolIdx |-> 1, historicalData |-> EmptyMap,
     allDates |-> << >>, dateIdx |-> 1, sim |-> simulationStart(cfg),
     error |-> "", result |-> << >>]

\* fetchHistoricalData of the second run: one symbol
OtherFetch ==
    /\ other.pc = "FETCHING"
    /\ other.symbolIdx <= Len(other.config.symbols)
    /\ LET symbol == other.config.symbols[other.symbolIdx]
       IN IF feed[symbol].ok
          THEN other' = [other EXCEPT
                    !.historicalData =
                        [s \in DOMAIN other.historicalData \cup {symbol} |->
                            IF s = symbol THEN feed[symbol].data
                            ELSE other.historicalData[s]],
                    !.symbolIdx = @ + 1]
          ELSE other' = [other EXCEPT !.pc = "FAILED", !.error = feed[symbol].error]
    /\ UNCHANGED <<runVars, deadlineElapsed, kvPortfolio, call, request>>

\* simulateTrading of the second run up to its loop
OtherStart ==
    /\ other.pc = "FETCHING"
    /\ other.symbolIdx > Len(other.config.symbols)
    /\ other' = [other EXCEPT !.pc = "SIMULATING",
                              !.allDates = getAllTradingDates(other.historicalData),
                              !.dateIdx = 1,
                              !.sim = simulationStart(other.config)]
    /\ UNCHANGED <<runVars, deadlineElapsed, kvPortfolio, call, request>>

\* One date of the second run with capital and the open positions kept in
\* module-level variables that every run uses
OtherDateSharingContext ==
    /\ other.pc = "SIMULATING"
    /\ other.dateIdx <= Len(other.allDates)
    /\ pc \in {"DAY", "SIGNAL"}
    /\ LET st == simulateDate(other.config, other.historicalData,
                              other.allDates[other.dateIdx],
                              [other.sim EXCEPT !.capital = capital,
                                                !.openPositions = openPositions])
       IN /\ other' = [other EXCEPT !.sim = st, !.dateIdx = @ + 1]
          /\ capital' = st.capital
          /\ openPositions' = st.openPositions
    /\ UNCHANGED <<config, feed, pc, error, symbolIdx, historicalData, allDates, dateIdx,
                   dayStartCapital, marketDataForDay, daySignals, sigIdx, peakCapital,
                   trades, equity, signals, dailyReturns, result,
                   deadlineElapsed, kvPortfolio, call, request>>

\* One date of the second run
OtherDate ==
    /\ other.pc = "SIMULATING"
    /\ other.dateIdx <= Len(other.allDates)
    /\ other' = [other EXCEPT
                    !.sim = simulateDate(other.config, other.historicalData,
                                         other.allDates[other.dateIdx], other.sim),
                    !.dateIdx = @ + 1]
    /\ UNCHANGED <<runVars, deadlineElapsed, kvPortfolio, call, request>>

\* calculateMetrics and the result of the second run
OtherFinish ==
    /\ other.pc = "SIMULATING"
    /\ other.dateIdx > Len(other.allDates)
    /\ other' = [other EXCEPT
                    !.pc = "DONE",
                    !.result = << [config |-> other.config,
                                   summary |-> calculateMetrics(other.config,
                                                   other.sim.trades, other.sim.equity,
                                                   other.sim.dailyReturns),
                                   trades |-> other.sim.trades,
                                   equity |-> other.sim.equity,
                                   signals |-> other.sim.signals,
                                   dailyReturns |-> other.sim.dailyReturns] >>]
    /\ UNCHANGED <<runVars, deadlineElapsed, kvPortfolio, call, request>>

ConcurrentFeeds ==
    { [A |-> Fetched(Series(ShapeRally, 1, 1, 0)), B |-> Fetched(Series(ShapeSlip, 1, 1, 1))],
      [A |-> Fetched(Series(ShapeDip, 1, 1, 0)), B |-> Unavailable("Request timeout")] }

InitConcurrent ==
    /\ config \in {BaseConfig, [BaseConfig EXCEPT !.symbols = <<"A">>, !.commission = 10]}
    /\ feed \in ConcurrentFeeds
    /\ InitRun
    /\ deadlineElapsed = FALSE
    /\ other \in {NewRun([BaseConfig EXCEPT !.initialCapital = 500 * MoneyScale]),
                  NewRun([BaseConfig EXCEPT !.symbols = <<"A">>, !.slippage = 10])}
    /\ kvPortfolio = EmptyPortfolio
    /\ call = NoCall
    /\ request = NoRequest

NextConcurrent ==
    \/ Next
    \/ OtherFetch
    \/ OtherStart
    \/ OtherDate
    \/ OtherFinish

SpecConcurrent == InitConcurrent /\ [][NextConcurrent]_vars

\* ------------------------------------------------------------- properties
SymbolSet == {config.symbols[i] : i \in DOMAIN config.symbols}
TradesOf(symbol) == SelectSeq(trades, LAMBDA t : t.symbol = symbol)
InSimulation == pc \in {"DAY", "SIGNAL", "SUMMARIZING", "DONE"}
\* A step of ProcessSignal: the only step that advances sigIdx
SignalStep == pc = "SIGNAL" /\ sigIdx <= Len(daySignals) /\ sigIdx' = sigIdx + 1
NewTrades == SubSeq(trades', Len(trades) + 1, Len(trades'))
MomentumReasons == {"Golden cross detected", "Death cross detected"}
MeanReversionReasons == {"RSI oversold", "RSI overbought"}

\* Signals of every action for every configured symbol, whatever the rules emit
AnySignals ==
    {[symbol |-> symbol, action |-> action, confidence |-> 65, reason |-> "",
      targetPrice |-> PriceTimes(price, 100), stopLoss |-> PriceTimes(price, 95)] :
        symbol \in SymbolSet, action \in {"BUY", "SELL", "HOLD"}, price \in {30, 60}}

\* C1: for every symbol, at every point of the run, the executed trades of the
\* symbol alternate BUY, SELL, BUY, ... starting with BUY, and the symbol has an
\* open position exactly when its trades end with a BUY: BUYs minus SELLs is 0
\* or 1 and no BUY executes while a position is open.  Whatever signal comes
\* next, a BUY trade needs the symbol to have no position and opens one, a SELL
\* trade needs it to have one and closes it, and nothing else changes which
\* symbols have a position.
C1_TradesAlternate ==
    /\ \A symbol \in SymbolSet :
          LET ts == TradesOf(symbol)
          IN /\ \A i \in 1..Len(ts) :
                   ts[i].action = IF i % 2 = 1 THEN "BUY" ELSE "SELL"
             /\ (symbol \in DOMAIN openPositions) <=> (Len(ts) % 2 = 1)
    /\ InSimulation =>
          \A signal \in AnySignals :
              LET out == processSignal(config, signal, 0, capital, openPositions)
                  had == signal.symbol \in DOMAIN openPositions
                  has == signal.symbol \in DOMAIN out.positions
              IN /\ \A s \in SymbolSet \ {signal.symbol} :
                       (s \in DOMAIN out.positions) <=> (s \in DOMAIN openPositions)
                 /\ IF out.trade = << >> THEN has <=> had
                    ELSE /\ out.trade[1].action = signal.action
                         /\ out.trade[1].symbol = signal.symbol
                         /\ signal.action = "BUY" => ~had /\ has
                         /\ signal.action = "SELL" => had /\ ~has

\* A symbol was bought and sold, and a BUY for it was turned down while its
\* position was open.
C1_Witness ==
    \E symbol \in SymbolSet :
        /\ Len(TradesOf(symbol)) >= 2
        /\ \E i \in DOMAIN signals :
              /\ signals[i].symbol = symbol
              /\ signals[i].signal.action = "BUY"
              /\ ~signals[i].executed
              /\ signals[i].reason = "Already have position"

\* The BUY trade that opened the position the SELL trade trades[i] closed
EntryOf(i) ==
    LET before == {j \in 1..(i - 1) : trades[j].symbol = trades[i].symbol
                                       /\ trades[j].action = "BUY"}
    IN trades[CHOOSE j \in before : \A k \in before : k <= j]

\* C2: the pnl of every SELL trade is (exit price - entry price) * quantity
\* minus the commission charged on the entry leg minus the commission charged
\* on the exit leg, each computed on its own leg's notional.
C2_CommissionPerLeg ==
    \A i \in DOMAIN trades :
        trades[i].action = "SELL" =>
            trades[i].pnl = (trades[i].price - EntryOf(i).price) * trades[i].quantity
                            - EntryOf(i).commission - trades[i].commission

\* C3: with strategy "mean_reversion" no signal of the momentum rule is
\* generated, recorded or executed, and with strategy "momentum" no signal of
\* the mean-reversion rule is.
C3_StrategySelectsRules ==
    LET excluded == IF config.strategy = "mean_reversion" THEN MomentumReasons
                    ELSE IF config.strategy = "momentum" THEN MeanReversionReasons
                    ELSE {}
    IN /\ \A i \in DOMAIN daySignals : daySignals[i].reason \notin excluded
       /\ \A i \in DOMAIN signals : signals[i].signal.reason \notin excluded
       /\ \A i \in DOMAIN trades : trades[i].reason \notin excluded

\* The close of a symbol on the calendar day of a date, as a sequence of at
\* most one element
CloseOn(symbol, date) ==
    LET onDate == SelectSeq(historicalData[symbol],
                            LAMBDA d : ToDateString(d.date) = ToDateString(date))
    IN IF onDate = << >> THEN << >> ELSE <<Head(onDate).close>>

\* The symbols whose position is open at the end of a date
HeldAfter(date) ==
    {symbol \in SymbolSet :
        LET ts == SelectSeq(trades, LAMBDA t : t.symbol = symbol /\ t.date <= date)
        IN ts # << >> /\ ts[Len(ts)].action = "BUY"}

\* C4: when positions are held over two consecutive simulated dates on which
\* their symbols close at the same price, and no trade executes on the second
\* date, the two equity points are equal.
C4_FlatCloseFlatEquity ==
    \A i \in 1..(Len(equity) - 1) :
        LET d1 == equity[i].date
            d2 == equity[i + 1].date
        IN (/\ HeldAfter(d1) # {}
            /\ \A j \in DOMAIN trades : trades[j].date # d2
            /\ \A symbol \in HeldAfter(d1) :
                  CloseOn(symbol, d1) # << >> /\ CloseOn(symbol, d1) = CloseOn(symbol, d2))
           => equity[i + 1].value = equity[i].value

\* C5: if the fetch of any configured symbol fails, the run fails with that
\* error, the simulation never starts and no result, equity point, signal
\* record or trade is produced; the simulation runs only on the data of every
\* configured symbol, each fetched successfully.
C5_FetchFailureAborts ==
    /\ [](/\ (\E i \in DOMAIN config.symbols : ~feed[config.symbols[i]].ok)
                => /\ pc \in {"INIT", "FETCHING", "FAILED"}
                   /\ result = << >> /\ equity = << >>
                   /\ signals = << >> /\ trades = << >>
          /\ InSimulation
                => \A i \in DOMAIN config.symbols :
                      /\ feed[config.symbols[i]].ok
                      /\ config.symbols[i] \in DOMAIN historicalData
                      /\ historicalData[config.symbols[i]] = feed[config.symbols[i]].data)
    /\ [][(/\ pc = "FETCHING"
           /\ symbolIdx <= Len(config.symbols)
           /\ ~feed[config.symbols[symbolIdx]].ok)
              => /\ pc' = "FAILED"
                 /\ error' = feed[config.symbols[symbolIdx]].error
                 /\ result' = << >>]_vars

\* The second symbol's fetch failed after the first symbol's data had arrived.
C5_Witness ==
    /\ pc = "FAILED"
    /\ error = "Request timeout"
    /\ DOMAIN historicalData # {}
    /\ result = << >>

\* C6: on a simulated date a symbol gets a snapshot exactly when it has a point
\* on that calendar day and at least 20 points on or before that day, the
\* day's own point included.
C6_SnapshotIffTwentyPoints ==
    pc = "SIGNAL" =>
        \A i \in DOMAIN config.symbols :
            LET symbol == config.symbols[i]
                day == ToDateString(allDates[dateIdx])
                data == historicalData[symbol]
            IN (\E k \in DOMAIN marketDataForDay : marketDataForDay[k].symbol = symbol)
               <=> (/\ \E j \in DOMAIN data : ToDateString(data[j].date) = day
                    /\ Cardinality({j \in DOMAIN data : ToDateString(data[j].date) <= day})
                          >= MinHistory)

\* C7: for every snapshot, the mean-reversion rule gives exactly one BUY with
\* target price * 1.05 and stop price * 0.97 when its RSI is below 30, exactly
\* one SELL with target price * 0.95 and stop price * 1.03 when its RSI is
\* above 70, and no signal otherwise; RSI 0 and RSI 100 included.
C7_MeanReversionRule ==
    pc = "SIGNAL" =>
        \A k \in DOMAIN marketDataForDay :
            LET data == marketDataForDay[k]
                out == meanReversionStrategy(data)
            IN IF data.rsi < 3000
               THEN /\ Len(out) = 1
                    /\ out[1].action = "BUY"
                    /\ out[1].targetPrice = PriceTimes(data.price, 105)
                    /\ out[1].stopLoss = PriceTimes(data.price, 97)
               ELSE IF data.rsi > 7000
               THEN /\ Len(out) = 1
                    /\ out[1].action = "SELL"
                    /\ out[1].targetPrice = PriceTimes(data.price, 95)
                    /\ out[1].stopLoss = PriceTimes(data.price, 103)
               ELSE out = << >>

\* A BUY signal for a symbol, as canExecuteSignal reads it
BuySignal(symbol) == [symbol |-> symbol, action |-> "BUY"]
HoldSignal(symbol) == [symbol |-> symbol, action |-> "HOLD"]

\* C8: a BUY is never reported executable when capital is 0 or negative (a BUY
\* is executable iff the symbol has no open position and capital *
\* positionSize / 100 is strictly greater than 0).
C8_NoBuyWithoutCapital ==
    (InSimulation /\ capital <= 0) =>
        \A symbol \in SymbolSet :
            ~canExecuteSignal(config, BuySignal(symbol), capital, openPositions).can

\* C9: a HOLD signal is never executable and never produces a trade; a SELL
\* produces a trade only if the symbol has an open position at that moment; a
\* signal rejected by canExecuteSignal leaves capital, the open positions and
\* the trade list unchanged.
C9_RejectedSignalsInert ==
    /\ [](InSimulation =>
            \A symbol \in SymbolSet :
                /\ ~canExecuteSignal(config, HoldSignal(symbol), capital, openPositions).can
                /\ processSignal(config, HoldSignal(symbol), 0, capital,
                                 openPositions).trade = << >>
                /\ \A i \in DOMAIN trades : trades[i].action # "HOLD")
    /\ [][SignalStep =>
            /\ \A i \in DOMAIN NewTrades :
                  NewTrades[i].action = "SELL"
                      => /\ NewTrades[i].symbol = daySignals[sigIdx].symbol
                         /\ NewTrades[i].symbol \in DOMAIN openPositions
            /\ ~canExecuteSignal(config, daySignals[sigIdx], capital, openPositions).can
                  => UNCHANGED <<capital, openPositions, trades>>]_vars

\* A SELL was turned down for want of a position, and a BUY for having one.
C9_Witness ==
    /\ \E i \in DOMAIN signals :
          /\ signals[i].signal.action = "SELL"
          /\ ~signals[i].executed
          /\ signals[i].reason = "No position to sell"
    /\ \E i \in DOMAIN signals :
          /\ signals[i].signal.action = "BUY"
          /\ ~signals[i].executed
          /\ signals[i].reason = "Already have position"

\* The documented scenario, in whole currency units: capital 100000,
\* positionSize 10, no commission, no slippage
ScenarioConfig ==
    [BaseConfig EXCEPT !.initialCapital = 100000, !.positionSize = 10,
                       !.commission = 0, !.slippage = 0]
ScenarioBuy ==
    executeTrade(ScenarioConfig,
                 [symbol |-> "A", action |-> "BUY", targetPrice |-> 100, reason |-> ""],
                 0, 100000, EmptyMap)
ScenarioSell ==
    executeTrade(ScenarioConfig,
                 [symbol |-> "A", action |-> "SELL", targetPrice |-> 110, reason |-> ""],
                 1, 100000, ScenarioBuy.positions)

\* C10: an executed BUY fills at targetPrice * (1 + slippage/100), for the
\* quantity floor(capital * positionSize / 100 / fill) taken from the capital
\* at the moment of the signal, and is charged fill * quantity * commission /
\* 100; with capital 100000, positionSize 10, no commission and no slippage a
\* BUY at 100 has quantity 100 and the SELL at 110 has pnl 1000.
C10_BuySizing ==
    /\ [](/\ Len(ScenarioBuy.trade) = 1
          /\ ScenarioBuy.trade[1].quantity = 100
          /\ Len(ScenarioSell.trade) = 1
          /\ ScenarioSell.trade[1].pnl = 1000)
    /\ [][SignalStep =>
            \A i \in DOMAIN NewTrades :
                NewTrades[i].action = "BUY" =>
                    LET target == daySignals[sigIdx].targetPrice
                        fill == target + (target * config.slippage) \div PctDen
                        quantity == (capital * config.positionSize) \div (100 * fill)
                    IN /\ (target * config.slippage) % PctDen = 0
                       /\ NewTrades[i].price = fill
                       /\ NewTrades[i].quantity = quantity
                       /\ (fill * quantity * config.commission) % PctDen = 0
                       /\ NewTrades[i].commission
                             = (fill * quantity * config.commission) \div PctDen]_vars

\* The first BUY of a run filled above its target, for more than one share,
\* the size rounded down from the capital's share.
C10_Witness ==
    /\ config.slippage > 0
    /\ trades # << >>
    /\ trades[1].action = "BUY"
    /\ trades[1].quantity >= 2
    /\ trades[1].price > PriceTimes(57, 105)
    /\ trades[1].quantity * trades[1].price
          < (config.initialCapital * config.positionSize) \div 100

\* C11: when a BUY signal passes canExecuteSignal but its position size rounds
\* to 0 shares, the step appends no trade, opens no position, leaves capital
\* unchanged, raises no error, the run goes on, and the signal is recorded in
\* the signals list with executed = false.
C11_ZeroQuantitySkipped ==
    [][(/\ SignalStep
        /\ daySignals[sigIdx].action = "BUY"
        /\ canExecuteSignal(config, daySignals[sigIdx], capital, openPositions).can
        /\ (capital * config.positionSize)
              \div (100 * PlusPct(daySignals[sigIdx].targetPrice, config.slippage)) = 0)
          => /\ UNCHANGED <<trades, openPositions, capital, pc, error, result>>
             /\ Len(signals') = Len(signals) + 1
             /\ SubSeq(signals', 1, Len(signals)) = signals
             /\ signals'[Len(signals')].signal = daySignals[sigIdx]
             /\ signals'[Len(signals')].symbol = daySignals[sigIdx].symbol
             /\ signals'[Len(signals')].date = allDates[dateIdx]
             /\ ~signals'[Len(signals')].executed]_vars

\* A run completed in which a BUY that canExecuteSignal let through was skipped
\* for its size of 0 shares: recorded, not executed, no rejection reason.
C11_Witness ==
    /\ pc = "DONE"
    /\ error = ""
    /\ \E i \in DOMAIN signals :
          /\ signals[i].signal.action = "BUY"
          /\ ~signals[i].executed
          /\ signals[i].reason = ""
          /\ \A j \in DOMAIN trades : trades[j].date # signals[i].date

\* Target prices of a round trip: whole and fractional prices
RoundTripTargets == {PriceTimes(30, 100), PriceTimes(57, 105), PriceTimes(66, 95)}

\* C12: with commission 0 and slippage 0, a position opened by an executed BUY
\* and closed by an executed SELL at the same price gives a SELL trade with pnl
\* exactly 0, for every price and every capital for which the BUY has a
\* non-zero quantity.
C12_RoundTripPnlZero ==
    (config.commission = 0 /\ config.slippage = 0) =>
        /\ \A i \in DOMAIN trades :
              (trades[i].action = "SELL" /\ trades[i].price = EntryOf(i).price)
                  => trades[i].pnl = 0
        /\ InSimulation =>
              \A target \in RoundTripTargets :
                  LET signal(action) ==
                          [symbol |-> "A", action |-> action, targetPrice |-> target,
                           reason |-> ""]
                      buy == executeTrade(config, signal("BUY"), 0, capital, EmptyMap)
                      sell == executeTrade(config, signal("SELL"), TicksPerDay,
                                           CapitalAfterTrade(capital, Head(buy.trade)),
                                           buy.positions)
                  IN buy.trade # << >> =>
                        /\ Len(sell.trade) = 1
                        /\ sell.trade[1].price = buy.trade[1].price
                        /\ sell.trade[1].quantity = buy.trade[1].quantity
                        /\ sell.trade[1].pnl = 0
                        /\ sell.positions = EmptyMap

\* A run without commission and slippage bought shares and sold them at the
\* price it had paid.
C12_Witness ==
    /\ config.commission = 0 /\ config.slippage = 0
    /\ \E i \in DOMAIN trades :
          /\ trades[i].action = "SELL"
          /\ trades[i].quantity >= 2
          /\ trades[i].price = EntryOf(i).price

\* The highest of the initial capital and the equity values before point i
RECURSIVE PriorPeak(_)
PriorPeak(i) ==
    IF i = 1 THEN config.initialCapital
    ELSE LET before == PriorPeak(i - 1)
         IN IF equity[i - 1].value > before THEN equity[i - 1].value ELSE before

\* C13: every equity point has drawdown = max(priorPeak, value) - value and
\* drawdown >= 0, priorPeak being the highest of the initial capital and the
\* equity values of the earlier dates.
C13_DrawdownFromPeak ==
    \A i \in DOMAIN equity :
        /\ equity[i].drawdown =
              (IF PriorPeak(i) > equity[i].value THEN PriorPeak(i) ELSE equity[i].value)
              - equity[i].value
        /\ equity[i].drawdown >= 0

\* The equity fell below its peak and later rose to a new peak.
C13_Witness ==
    \E i, j \in DOMAIN equity :
        /\ i < j
        /\ equity[i].drawdown > 0
        /\ equity[j].value > PriorPeak(j)
        /\ equity[j].drawdown = 0

\* C14: the equity list has exactly one point per simulated date, in date
\* order, dates without any snapshot or signal included, and dailyReturns has
\* the length of equity; so it is at every date of the run and in the result
\* of a completed run.
C14_OneEquityPointPerDate ==
    /\ InSimulation =>
          /\ Len(equity) = dateIdx - 1
          /\ \A i \in DOMAIN equity : equity[i].date = allDates[i]
          /\ Len(dailyReturns) = Len(equity)
    /\ pc = "DONE" =>
          /\ Len(result) = 1
          /\ Len(result[1].equity) = Len(allDates)
          /\ \A i \in DOMAIN allDates : result[1].equity[i].date = allDates[i]
          /\ Len(result[1].dailyReturns) = Len(result[1].equity)

\* A completed run whose first date had no snapshot for any symbol and whose
\* later dates had signals.
C14_Witness ==
    /\ pc = "DONE"
    /\ Len(allDates) > MinHistory
    /\ MarketDataForDay(config.symbols, historicalData, allDates[1]) = << >>
    /\ result[1].equity[1].date = allDates[1]
    /\ signals # << >>

\* The calendar days on which a symbol has a price point
CalendarOf(symbol) ==
    {ToDateString(historicalData[symbol][k].date) : k \in DOMAIN historicalData[symbol]}

\* C15: the simulated dates are the sorted union of the symbols' calendars:
\* strictly ascending, no calendar day twice, every calendar day on which some
\* symbol has a price point, and no other day.
C15_DatesAreSortedUnion ==
    InSimulation =>
        /\ \A i, j \in DOMAIN allDates : i < j => allDates[i] < allDates[j]
        /\ \A i, j \in DOMAIN allDates :
              i # j => ToDateString(allDates[i]) # ToDateString(allDates[j])
        /\ {ToDateString(allDates[i]) : i \in DOMAIN allDates}
              = UNION {CalendarOf(symbol) : symbol \in DOMAIN historicalData}

\* Two symbols with different calendars: between two days that only the first
\* trades lies a day that only the second trades.
C15_Witness ==
    /\ InSimulation
    /\ DOMAIN historicalData = {"A", "B"}
    /\ \E i, j, k \in DOMAIN allDates :
          /\ i < j /\ j < k
          /\ ToDateString(allDates[i]) \in CalendarOf("A") \ CalendarOf("B")
          /\ ToDateString(allDates[j]) \in CalendarOf("B") \ CalendarOf("A")
          /\ ToDateString(allDates[k]) \in CalendarOf("A") \ CalendarOf("B")

\* Snapshots on which no rule, one rule or both rules fire, the two with
\* the same action and with opposite actions
SampleSnapshots ==
    {[symbol |-> symbol, price |-> m[1], rsi |-> rsi, sma20 |-> m[2], sma50 |-> m[3]] :
        symbol \in {"A", "B"}, rsi \in {0, 2000, 5000, 8000},
        m \in {<<60, 5000, 4000>>, <<40, 5000, 6000>>, <<50, 5000, 5000>>}}
SampleBatches ==
    {<<x>> : x \in SampleSnapshots}
        \cup {<<x, y>> : x \in {d \in SampleSnapshots : d.symbol = "A"},
                         y \in {d \in SampleSnapshots : d.symbol = "B"}}

\* The signals the two rules give for one snapshot, mean reversion first
SnapshotSignals(data) == meanReversionStrategy(data) \o momentumStrategy(data)

\* The generated signals of a batch lie snapshot after snapshot, each
\* snapshot's part being its mean-reversion signal, then its momentum signal
GeneratedPerSnapshot(marketData) ==
    LET generated == RuleSignals(marketData)
        Before(k) == SumSeq([j \in 1..(k - 1) |-> Len(SnapshotSignals(marketData[j]))])
    IN /\ Len(generated) = Before(Len(marketData) + 1)
       /\ \A k \in DOMAIN marketData :
             /\ Len(SnapshotSignals(marketData[k])) \in 0..2
             /\ Len(meanReversionStrategy(marketData[k])) \in 0..1
             /\ Len(momentumStrategy(marketData[k])) \in 0..1
             /\ SubSeq(generated, Before(k) + 1, Before(k + 1))
                   = SnapshotSignals(marketData[k])

\* C16: the two rules are evaluated independently and never deduplicated: the
\* signals generated for a batch of snapshots are, snapshot by snapshot in
\* snapshot order, the mean-reversion signal (if that rule fires) followed by
\* the momentum signal (if that rule fires): 0, 1 or 2 per snapshot, two when
\* both fire, whether their actions agree or conflict.  The signals of the day
\* are those of them the risk manager approves, in that order.  So it is for
\* the snapshots of every date of the runs and, before a run starts, for the
\* sample batches.
C16_RulesIndependent ==
    /\ pc = "SIGNAL" =>
          /\ GeneratedPerSnapshot(marketDataForDay)
          /\ daySignals = SelectSeq(RuleSignals(marketDataForDay), calculateRiskMetrics)
    /\ \A batch \in IF pc = "INIT" THEN SampleBatches ELSE {} :
          /\ GeneratedPerSnapshot(batch)
          /\ generateSignals(batch) = SelectSeq(RuleSignals(batch), calculateRiskMetrics)

\* On one snapshot of a run both rules fired and both signals reached the
\* signal loop, the mean-reversion signal first.
C16_Witness ==
    /\ pc = "SIGNAL"
    /\ \E k \in DOMAIN marketDataForDay :
          /\ Len(SnapshotSignals(marketDataForDay[k])) = 2
          /\ \E i \in 1..(Len(daySignals) - 1) :
                /\ daySignals[i] = SnapshotSignals(marketDataForDay[k])[1]
                /\ daySignals[i + 1] = SnapshotSignals(marketDataForDay[k])[2]
                /\ daySignals[i].reason \in MeanReversionReasons
                /\ daySignals[i + 1].reason \in MomentumReasons

\* Snapshots around the boundaries of the momentum rule's comparisons
BoundarySnapshots ==
    {[symbol |-> "A", price |-> price, rsi |-> 5000, sma20 |-> sma20, sma50 |-> sma50] :
        price \in {49, 50, 51}, sma20 \in {4900, 5000, 5100}, sma50 \in {4900, 5000, 5100}}

\* C17: for every snapshot with defined SMA20 and SMA50, the momentum rule
\* gives a BUY with confidence 0.65 exactly when SMA20 > SMA50 and price >
\* SMA20, a SELL with confidence 0.65 exactly when SMA20 < SMA50 and price <
\* SMA20, and no signal otherwise; never a BUY and a SELL for one snapshot.  So
\* it is for the snapshots of every date of the runs and, before a run starts,
\* for snapshots around the boundaries.
C17_MomentumRule ==
    \A data \in {marketDataForDay[k] : k \in DOMAIN marketDataForDay}
                   \cup (IF pc = "INIT" THEN BoundarySnapshots ELSE {}) :
        (data.sma20 # 0 /\ data.sma50 # 0) =>
            LET out == momentumStrategy(data)
                golden == data.sma20 > data.sma50 /\ 100 * data.price > data.sma20
                death == data.sma20 < data.sma50 /\ 100 * data.price < data.sma20
            IN /\ Len(out) <= 1
               /\ ~(golden /\ death)
               /\ golden <=> (out # << >> /\ out[1].action = "BUY")
               /\ death <=> (out # << >> /\ out[1].action = "SELL")
               /\ out # << >> => out[1].confidence = 65 /\ out[1].symbol = data.symbol

\* In one run the momentum rule gave a BUY on a golden cross and a SELL on a
\* death cross.
C17_Witness ==
    /\ \E i \in DOMAIN signals :
          /\ signals[i].signal.reason = "Golden cross detected"
          /\ signals[i].signal.action = "BUY"
          /\ signals[i].signal.confidence = 65
    /\ \E i \in DOMAIN signals :
          /\ signals[i].signal.reason = "Death cross detected"
          /\ signals[i].signal.action = "SELL"
          /\ signals[i].signal.confidence = 65

\* Signals below, at and above the confidence threshold, and batches of up to
\* three of them, repetitions included
SampleSignals ==
    {[symbol |-> symbol, action |-> "BUY", confidence |-> confidence, reason |-> "",
      targetPrice |-> PriceTimes(60, 105), stopLoss |-> PriceTimes(60, 97)] :
        symbol \in {"A", "B"}, confidence \in {20, 25, 65}}
SampleSignalBatches ==
    {<< >>} \cup {<<x>> : x \in SampleSignals}
        \cup {<<x, y>> : x \in SampleSignals, y \in SampleSignals}
        \cup {<<x, y, z>> : x \in SampleSignals, y \in SampleSignals, z \in SampleSignals}

\* What assessRisk decides of a signal that is passed alone
ApprovedAlone(signal) == assessRisk(<<signal>>) = <<signal>>

\* C18: assessRisk returns an order-preserving subsequence of its batch: the
\* returned signals are the input signals that it approves when each is passed
\* alone, unchanged, in input order, none added or repeated.  So it is for the
\* rule signals of every date of the runs and, before a run starts, for the
\* sample batches.
C18_ApprovedSubsequence ==
    \A batch \in {RuleSignals(marketDataForDay)}
                    \cup (IF pc = "INIT" THEN SampleSignalBatches ELSE {}) :
        /\ \A i \in DOMAIN batch : assessRisk(<<batch[i]>>) \in {<< >>, <<batch[i]>>}
        /\ assessRisk(batch) = SelectSeq(batch, ApprovedAlone)
        /\ Len(assessRisk(batch)) <= Len(batch)

\* On one date of a run the risk manager rejected a signal and approved the
\* one after it.
C18_Witness ==
    /\ pc = "SIGNAL"
    /\ \E i \in 1..(Len(RuleSignals(marketDataForDay)) - 1) :
          /\ ~ApprovedAlone(RuleSignals(marketDataForDay)[i])
          /\ ApprovedAlone(RuleSignals(marketDataForDay)[i + 1])
    /\ daySignals = assessRisk(RuleSignals(marketDataForDay))
    /\ daySignals # << >>

\* The documented risk parameters: the minimum confidence in hundredths, the
\* minimum risk/reward ratio in tenths
DocumentedMinConfidence == 60
DocumentedMinRiskReward == 15

\* C19: every signal the risk filter approves has a confidence above the
\* documented minimum of 0.6; a signal of confidence 0.6 or less is rejected.
C19_ApprovedAboveDocumentedConfidence ==
    /\ \A i \in DOMAIN RuleSignals(marketDataForDay) :
          ApprovedAlone(RuleSignals(marketDataForDay)[i])
              => RuleSignals(marketDataForDay)[i].confidence > DocumentedMinConfidence
    /\ \A i \in DOMAIN daySignals : daySignals[i].confidence > DocumentedMinConfidence

\* C20: a signal with both a target price and a stop loss is approved only if
\* the risk/reward ratio of the two levels, |target - stop| / |stop - target|
\* as the filter takes it, is at least the documented minimum of 1.5.
C20_ApprovedAboveDocumentedRatio ==
    \A i \in DOMAIN daySignals :
        (daySignals[i].targetPrice # 0 /\ daySignals[i].stopLoss # 0)
            => 10 * Abs(daySignals[i].targetPrice - daySignals[i].stopLoss)
                  >= DocumentedMinRiskReward
                       * Abs(daySignals[i].stopLoss - daySignals[i].targetPrice)

\* C21: a config whose startDate is not before its endDate, whose symbol list
\* is empty or whose strategy is none of mean_reversion, momentum and both is
\* rejected with an invalid-config error before anything is fetched or
\* simulated: its run is only ever in INIT or FAILED, its first step leads to
\* FAILED, the error is the message of the first validation it fails, no
\* series has been fetched, the simulation has no state and there is no
\* BacktestResult.
InvalidConfig(cfg) ==
    \/ cfg.startDate >= cfg.endDate
    \/ Len(cfg.symbols) = 0
    \/ cfg.strategy \notin {"mean_reversion", "momentum", "both"}

InvalidConfigError(cfg) ==
    IF cfg.startDate >= cfg.endDate
    THEN "Invalid date range: startDate must be before endDate"
    ELSE IF Len(cfg.symbols) = 0 THEN "At least one symbol is required"
    ELSE "Invalid strategy: must be mean_reversion, momentum, or both"

C21_InvalidConfigRejected ==
    /\ [](InvalidConfig(config) =>
            /\ pc \in {"INIT", "FAILED"}
            /\ pc = "FAILED" => error = InvalidConfigError(config)
            /\ symbolIdx = 1 /\ historicalData = EmptyMap
            /\ allDates = << >> /\ trades = << >> /\ equity = << >>
            /\ signals = << >> /\ dailyReturns = << >>
            /\ result = << >>)
    /\ [][InvalidConfig(config) => pc' = "FAILED"]_vars

\* An unsupported strategy over data the provider can supply is rejected
C21_Witness ==
    /\ pc = "FAILED"
    /\ config.strategy = "scalping" /\ Len(config.symbols) > 0
    /\ config.startDate < config.endDate
    /\ \A s \in DOMAIN feed : feed[s].ok
    /\ error = "Invalid strategy: must be mean_reversion, momentum, or both"
    /\ historicalData = EmptyMap /\ result = << >>
\* C22: a run goes through the phases INIT, FETCHING, SIMULATING, SUMMARIZING
\* and DONE in that order, one phase at a time and never backwards; FAILED is
\* entered only from INIT on an invalid config or from FETCHING on a series
\* the provider could not supply, with that error; nothing changes once the
\* run is DONE or FAILED; and a BacktestResult exists exactly in DONE.
Phase ==
    IF pc \in {"DAY", "SIGNAL"} THEN "SIMULATING" ELSE pc

PhaseRank(phase) ==
    CASE phase = "INIT" -> 0
      [] phase = "FETCHING" -> 1
      [] phase = "SIMULATING" -> 2
      [] phase = "SUMMARIZING" -> 3
      [] phase = "DONE" -> 4
      [] phase = "FAILED" -> 5

RECURSIVE SameQuotient(_, _, _, _)
SameQuotient(a, b, c, d) ==
    /\ a \div b = c \div d
    /\ (a % b = 0) <=> (c % d = 0)
    /\ a % b # 0 => SameQuotient(b, a % b, d, c % d)

SameReturn(r, q) ==
    SameQuotient(IF r.den < 0 THEN -r.num ELSE r.num, Abs(r.den),
                 IF q.den < 0 THEN -q.num ELSE q.num, Abs(q.den))

StdDevIsZero(returns) ==
    /\ returns # << >>
    /\ \A i \in DOMAIN returns : returns[i].den # 0
    /\ \A i \in DOMAIN returns : SameReturn(returns[i], returns[1])

GrossLossIsZero(trades_) ==
    \A i \in DOMAIN trades_ :
        trades_[i].action = "SELL" /\ trades_[i].hasPnl => trades_[i].pnl >= 0

SellTrades == SelectSeq(trades, LAMBDA t : t.action = "SELL")
WinningSells == SelectSeq(trades, LAMBDA t : t.action = "SELL" /\ t.pnl > 0)

WinRateOf(summary) ==
    /\ summary.totalTrades = Len(SellTrades)
    /\ summary.winningTrades = Len(WinningSells)
    /\ summary.winRate.den > 0
    /\ summary.winRate.num >= 0
    /\ summary.winRate.num <= 100 * summary.winRate.den
    /\ Len(SellTrades) = 0 => summary.winRate = Ratio(0, 1)
    /\ Len(SellTrades) > 0 =>
            summary.winRate.num * Len(SellTrades)
                = 100 * Len(WinningSells) * summary.winRate.den
    /\ summary.winRate = calculateMetrics(config, SellTrades, equity, dailyReturns).winRate

C25_WinRate ==
    /\ InSimulation => WinRateOf(calculateMetrics(config, trades, equity, dailyReturns))
    /\ pc = "DONE" => WinRateOf(Head(result).summary)

\* A result with a winning round trip and a position that is still open
C25_Witness ==
    /\ pc = "DONE"
    /\ Len(WinningSells) >= 1
    /\ DOMAIN openPositions # {}
    /\ Len(trades) > 2 * Len(SellTrades)
    /\ Head(result).summary.winRate.num = 100 * Head(result).summary.winRate.den
\* C26: calculateRSI(prices, 14) of a strictly increasing series of 15 or
\* more prices lies in (50, 100], of a strictly decreasing one in [0, 50), and
\* of a series of fewer than 15 prices it is exactly 50.  Stated for sample
\* series of several lengths and step patterns and for every prefix of every
\* series the provider supplied.
StrictlyIncreasing(prices) ==
    \A i \in 1..(Len(prices) - 1) : prices[i] < prices[i + 1]

StrictlyDecreasing(prices) ==
    \A i \in 1..(Len(prices) - 1) : prices[i] > prices[i + 1]

RECURSIVE Climb(_, _, _, _)
\* n prices from start, the i-th step being 1 + (i * a) % m
Climb(start, n, a, m) ==
    IF n = 0 THEN << >>
    ELSE IF n = 1 THEN <<start>>
    ELSE LET before == Climb(start, n - 1, a, m)
         IN Append(before, before[n - 1] + 1 + ((n * a) % m))

Reversed(s) == [i \in 1..Len(s) |-> s[Len(s) + 1 - i]]

SampleClimbs ==
    {Climb(start, n, a, m) : start \in {1, 40}, n \in {15, 16, 21}, a \in 0..2, m \in {2, 3}}

SamplePrices ==
    SampleClimbs \cup {Reversed(s) : s \in SampleClimbs}
        \cup {SubSeq(s, 1, k) : s \in {Climb(40, 15, 1, 3), Reversed(Climb(1, 15, 2, 3)),
                                       ShapeDip, ShapeCross},
                                k \in {0, 1, 2, 13, 14}}
        \cup {ShapeDip, ShapeCross}

FetchedPrefixes ==
    UNION {{[i \in 1..k |-> historicalData[s][i].close] :
                k \in 0..Len(historicalData[s])} : s \in DOMAIN historicalData}

RSIInRange(prices) ==
    LET rsi == calculateRSI(prices, RSIPeriod)
    IN /\ Len(prices) < RSIPeriod + 1 => rsi = 5000
       /\ Len(prices) >= RSIPeriod + 1 /\ StrictlyIncreasing(prices) =>
                rsi > 5000 /\ rsi <= 10000
       /\ Len(prices) >= RSIPeriod + 1 /\ StrictlyDecreasing(prices) =>
                rsi >= 0 /\ rsi < 5000

C26_RSIOfMonotoneSeries ==
    /\ \A prices \in IF pc = "INIT" /\ config = BaseConfig THEN SamplePrices ELSE {} :
            RSIInRange(prices)
    /\ \A prices \in IF pc = "DAY" /\ dateIdx = 1 /\ config = BaseConfig
                       THEN FetchedPrefixes ELSE {} :
            RSIInRange(prices)

\* The provider's series of one symbol rises strictly and the other falls
\* strictly, and the run has computed the RSI of both
C26_Witness ==
    /\ pc = "SIGNAL"
    /\ \E i, j \in DOMAIN marketDataForDay :
        LET up == [k \in 1..Len(historicalData[marketDataForDay[i].symbol]) |->
                      historicalData[marketDataForDay[i].symbol][k].close]
            down == [k \in 1..Len(historicalData[marketDataForDay[j].symbol]) |->
                      historicalData[marketDataForDay[j].symbol][k].close]
        IN /\ StrictlyIncreasing(up) /\ Len(up) >= RSIPeriod + 1
           /\ marketDataForDay[i].rsi = 10000
           /\ StrictlyDecreasing(down) /\ Len(down) >= RSIPeriod + 1
           /\ marketDataForDay[j].rsi = 0
\* C27: a request that omits initialCapital, positionSize, commission or
\* slippage runs with 100000, 10, 0.1 and 0.05, and a request that supplies one
\* of them runs with exactly the supplied value, a commission or slippage of 0
\* included.  Stated for the config the Backtester ends up with, for sample
\* bodies and for the body that supplies the values of the run's own config.
BodyOf(cfg) ==
    [initialCapital |-> cfg.initialCapital \div MoneyScale,
     positionSize |-> cfg.positionSize,
     commission |-> cfg.commission,
     slippage |-> cfg.slippage]

DefaultOf(field) ==
    CASE field = "initialCapital" -> DefaultInitialCapital
      [] field = "positionSize" -> DefaultPositionSize
      [] field = "commission" -> DefaultCommission
      [] field = "slippage" -> DefaultSlippage

RunsWithSupplied(body, fields) ==
    LET cfg == BacktesterConfig(ParseConfig(body))
    IN \A field \in fields :
        cfg[field] = IF field \in DOMAIN body THEN body[field] ELSE DefaultOf(field)

C27_SuppliedValuesUsed ==
    \A body \in IF pc = "INIT"
                 THEN {b \in SampleBodies \cup {BodyOf(config)} :
                         \A field \in DOMAIN b \cap {"initialCapital", "positionSize"} :
                             b[field] # 0}
                 ELSE {} :
        RunsWithSupplied(body, NumericFields)

\* C28: outside mock mode getHistoricalData fails whenever the provider cannot
\* supply the series (it answers 401, 403 or 404, or its response is
\* unsuccessful) and whatever it returns are the provider's own points; so a
\* run is never simulated over a series that did not come from the provider.
SampleAnswers ==
    {Answer(200, TRUE, Series(ShapeDip, 1, 1, 0), ""),
     Answer(200, FALSE, << >>, ""),
     Answer(200, FALSE, << >>, "Invalid session"),
     Answer(200, FALSE, << >>, "Too many requests"),
     Answer(401, FALSE, << >>, ""),
     Answer(403, FALSE, << >>, ""),
     Answer(404, FALSE, << >>, ""),
     Answer(500, FALSE, << >>, "")}

CannotSupply(answer) ==
    answer.status \in {401, 403, 404} \/ ~answer.success

QuoteHits(position, quotes) ==
    /\ position.status = "OPEN"
    /\ quotes[position.symbol] # 0
    /\ \/ quotes[position.symbol] <= position.stopLoss
       \/ quotes[position.symbol] >= position.targetPrice

\* The positions the call found OPEN with a quote beyond a limit
HitPositions ==
    {i \in DOMAIN call.portfolio.positions :
        QuoteHits(call.portfolio.positions[i], call.quotes)}

RECURSIVE SumOver(_, _)
SumOver(S, f) ==
    IF S = {} THEN 0
    ELSE LET i == CHOOSE x \in S : TRUE IN f[i] + SumOver(S \ {i}, f)

C29_StopsAndTargetsClosed ==
    call.pc = "RETURNED" =>
        LET before == call.portfolio
            exitValue == [i \in DOMAIN before.positions |->
                            call.quotes[before.positions[i].symbol]
                                * before.positions[i].quantity]
            pnl == [i \in DOMAIN before.positions |->
                        exitValue[i] - before.positions[i].entryPrice
                                        * before.positions[i].quantity]
        IN /\ \A i \in DOMAIN kvPortfolio.positions :
                    ~QuoteHits(kvPortfolio.positions[i], call.quotes)
           /\ \A i \in HitPositions :
                    /\ kvPortfolio.positions[i].status = "CLOSED"
                    /\ kvPortfolio.positions[i].currentPrice
                            = call.quotes[before.positions[i].symbol]
           /\ kvPortfolio.capital = before.capital + SumOver(HitPositions, exitValue)
           /\ kvPortfolio.totalPnL = before.totalPnL + SumOver(HitPositions, pnl)
\* C30: a run has a deadline.  Once the deadline has elapsed on a run that is
\* not complete, the only thing the run does is to fail with an error, and it
\* never has a result; and no result covers fewer dates than the calendar of
\* the run.
C30_DeadlineStopsRun ==
    /\ [](deadlineElapsed => result = << >>)
    /\ [](result # << >> => /\ Len(Head(result).equity) = Len(allDates)
                            /\ Len(Head(result).dailyReturns) = Len(allDates))
    /\ [][deadlineElapsed /\ pc \notin {"DONE", "FAILED"}
            => pc' = "FAILED" /\ error' # "" /\ result' = << >>]_vars

\* simulateTrading of one run with no other run in the process
RECURSIVE simulateDatesAlone(_, _, _, _)
simulateDatesAlone(cfg, hd, dates, st) ==
    IF dates = << >> THEN st
    ELSE CHOOSE last \in {simulateDatesAlone(cfg, hd, Tail(dates), next) :
                            next \in {simulateDate(cfg, hd, Head(dates), st)}} : TRUE

simulateTradingAlone(cfg, hd) ==
    simulateDatesAlone(cfg, hd, getAllTradingDates(hd), simulationStart(cfg))

\* The locals of a run that has simulated done of its dates
AloneAfter(cfg, hd, dates, done) ==
    simulateDatesAlone(cfg, hd, SubSeq(dates, 1, done), simulationStart(cfg))

SameAsAlone(res, cfg, hd) ==
    \A alone \in {simulateTradingAlone(cfg, hd)} :
        /\ res.config = cfg
        /\ res.trades = alone.trades
        /\ res.equity = alone.equity
        /\ res.signals = alone.signals
        /\ res.dailyReturns = alone.dailyReturns

\* C23: two runs that interleave at their awaits and share the provider and
\* the risk manager each end with the trades, equity, signals and daily
\* returns of the same run executed alone on the historical data it fetched,
\* and between two dates each run's capital, open positions, trades, equity,
\* signals and daily returns are those of the run alone after the same dates,
\* whatever the other run has done in the meantime.
C23_ConcurrentRunsIsolated ==
    /\ pc = "DAY" =>
            \A alone \in {AloneAfter(config, historicalData, allDates, dateIdx - 1)} :
                /\ capital = alone.capital /\ openPositions = alone.openPositions
                /\ trades = alone.trades /\ equity = alone.equity
                /\ signals = alone.signals /\ dailyReturns = alone.dailyReturns
    /\ pc = "DONE" => SameAsAlone(Head(result), config, historicalData)
    /\ other.pc = "SIMULATING" =>
            other.sim = AloneAfter(other.config, other.historicalData,
                                   other.allDates, other.dateIdx - 1)
    /\ other.pc = "DONE" =>
            SameAsAlone(Head(other.result), other.config, other.historicalData)

\* Both runs are done, each with trades and an equity curve of its own
C23_Witness ==
    /\ pc = "DONE" /\ other.pc = "DONE"
    /\ Head(result).trades # << >>
    /\ Head(other.result).trades # << >>
    /\ Head(result).trades # Head(other.result).trades
    /\ Head(result).equity # Head(other.result).equity

\* The pnl realised by the SELL trades executed so far
RealizedPnl == SumSeq(PnlOf(completedTrades(trades)))

\* C31: whenever the run holds no open position, capital is initialCapital
\* plus the pnl of the SELL trades executed so far, and a run that ends with
\* no open position reports finalCapital - initialCapital = totalPnL.
C31_CapitalMatchesRealizedPnl ==
    /\ pc \in {"DAY", "SIGNAL", "SUMMARIZING"} /\ openPositions = EmptyMap
            => capital = config.initialCapital + RealizedPnl
    /\ pc = "DONE" /\ openPositions = EmptyMap
            => Head(result).summary.finalCapital - config.initialCapital
                    = Head(result).summary.totalPnL

\* The record of the i-th signal of the current date, once it is processed
Processed(i) == signals[Len(signals) - (sigIdx - 1) + i]

\* The symbol held a position when the current date began
HeldBefore(symbol) ==
    LET prior == SelectSeq(trades, LAMBDA t : t.symbol = symbol
                                              /\ t.date < allDates[dateIdx])
    IN prior # << >> /\ prior[Len(prior)].action = "BUY"

\* Signals i and j of the current date are the first two for their symbol
FirstTwoOf(i, j) ==
    /\ i < j
    /\ daySignals[i].symbol = daySignals[j].symbol
    /\ \A k \in 1..(j - 1) : k # i => daySignals[k].symbol # daySignals[i].symbol

\* The trades of the current date for a symbol, as their actions
TodayActions(symbol) ==
    LET today == SelectSeq(trades, LAMBDA t : t.symbol = symbol
                                              /\ t.date = allDates[dateIdx])
    IN [k \in DOMAIN today |-> today[k].action]

PositionValueAboveCapital ==
    \/ capital > 0 /\ config.positionSize > 100
    \/ capital < 0 /\ config.positionSize < 100

\* C33: processing a BUY never drives capital below zero: with capital not
\* negative before the signal and positionSize in (0, 100], capital is not
\* negative after the cost and the commission of the BUY are deducted; and a
\* BUY whose position value exceeds capital is refused as insufficient capital.
C33_BuyKeepsCapitalNonNegative ==
    /\ [][(/\ SignalStep
            /\ daySignals[sigIdx].action = "BUY"
            /\ capital >= 0
            /\ config.positionSize \in 1..100) => capital' >= 0]_vars
    /\ [](InSimulation =>
            \A symbol \in SymbolSet \ DOMAIN openPositions :
                PositionValueAboveCapital =>
                    canExecuteSignal(config, BuySignal(symbol), capital,
                                     openPositions).reason = "Insufficient capital")

\* The records with executed = true, and what identifies the trade of each
ExecutedRecords == SelectSeq(signals, LAMBDA r : r.executed)
TradeKey(symbol, date, action) == [symbol |-> symbol, date |-> date, action |-> action]

\* C34: the signal list gets exactly one record per approved signal, in
\* processing order, and a record has executed = true exactly if one trade was
\* appended for its signal; so at every point of the run the records with
\* executed = true are as many as the trades, and pair with them in order.
C34_OneRecordPerSignal ==
    /\ [](InSimulation =>
            /\ Len(ExecutedRecords) = Len(trades)
            /\ \A i \in DOMAIN trades :
                  TradeKey(trades[i].symbol, trades[i].date, trades[i].action)
                      = TradeKey(ExecutedRecords[i].symbol, ExecutedRecords[i].date,
                                 ExecutedRecords[i].signal.action))
    /\ [](pc = "SIGNAL" => \A i \in 1..(sigIdx - 1) :
                                /\ Processed(i).signal = daySignals[i]
                                /\ Processed(i).date = allDates[dateIdx])
    /\ [][SignalStep =>
            /\ signals' = Append(signals, signals'[Len(signals')])
            /\ signals'[Len(signals')].executed <=> Len(trades') = Len(trades) + 1
            /\ ~signals'[Len(signals')].executed <=> trades' = trades
            /\ SubSeq(trades', 1, Len(trades)) = trades]_vars
    /\ [][(~SignalStep /\ pc # "FETCHING") => UNCHANGED <<signals, trades>>]_vars

\* A run in which signals were refused, one approved BUY produced no trade
\* and others executed
C34_Witness ==
    /\ pc = "DONE"
    /\ Len(trades) >= 2
    /\ Len(signals) > Len(trades)
    /\ \E i \in DOMAIN signals : ~signals[i].executed /\ signals[i].reason = ""
    /\ \E i \in DOMAIN signals : ~signals[i].executed /\ signals[i].reason # ""

\* C35: every signal record with executed = false carries a non-empty reason
\* saying why the signal was not executed, whichever way it failed to produce
\* a trade.
C35_UnexecutedHasReason ==
    InSimulation => \A i \in DOMAIN signals :
                        ~signals[i].executed => signals[i].reason # ""

\* C36: no two trades of one run share an id, for every config that passes
\* validation and every historical data set.
C36_TradeIdsUnique ==
    \A i, j \in DOMAIN trades : i # j => trades[i].id # trades[j].id

\* The OPEN positions of a symbol in a portfolio
OpenOf(portfolio, symbol) ==
    {i \in DOMAIN portfolio.positions :
        /\ portfolio.positions[i].symbol = symbol
        /\ portfolio.positions[i].status = "OPEN"}

\* C37: when executeTrade has returned a trade for a BUY signal, the stored
\* portfolio holds that trade, an OPEN position whose id is the trade's
\* positionId, and the capital from before the call less price x quantity.
C37_BuyStoresPosition ==
    (call.pc = "EXECUTED" /\ call.signal.action = "BUY" /\ call.trade # << >>) =>
        LET trade == Head(call.trade)
        IN /\ \E i \in DOMAIN kvPortfolio.trades : kvPortfolio.trades[i] = trade
           /\ \E i \in DOMAIN kvPortfolio.positions :
                 /\ kvPortfolio.positions[i].id = trade.positionId
                 /\ kvPortfolio.positions[i].status = "OPEN"
                 /\ kvPortfolio.positions[i].symbol = trade.symbol
           /\ kvPortfolio.capital = call.before.capital - trade.price * trade.quantity

\* C38: executeTrade records a SELL trade only when an OPEN position of the
\* symbol existed and was closed by it; a SELL for a symbol with no OPEN
\* position returns no trade and leaves the stored trades, positions, capital
\* and totalPnL as they were.
C38_SellNeedsPosition ==
    (call.pc = "EXECUTED" /\ call.signal.action = "SELL") =>
        IF OpenOf(call.before, call.signal.symbol) = {}
        THEN call.trade = << >> /\ kvPortfolio = call.before
        ELSE call.trade # << >> =>
                \E i \in OpenOf(call.before, call.signal.symbol) :
                    /\ kvPortfolio.positions[i].status = "CLOSED"
                    /\ kvPortfolio.positions[i].currentPrice = call.currentPrice

\* The outcomes of the attempts that were followed by another attempt
Reattempted ==
    {i \in DOMAIN request.outcomes :
        i < Len(request.outcomes) \/ request.pc \in {"WAITING", "FETCHING"}}

\* C39: makeRequest makes at most 3 attempts for one request and then fails;
\* it makes another attempt only after a timeout (abort) or a failure of
\* fetch itself, and never after the server answered with a 4xx status.
C39_RetriesBounded ==
    request.pc # "NONE" =>
        /\ request.attempt <= RetryAttempts
        /\ Len(request.outcomes) <= RetryAttempts
        /\ (Len(request.outcomes) = RetryAttempts
                /\ ~Succeeds(request.outcomes[RetryAttempts]))
              => request.pc = "REJECTED" /\ request.error # << >>
        /\ \A i \in Reattempted :
              /\ request.outcomes[i].kind \in {"abort", "network"}
              /\ ~(/\ request.outcomes[i].kind = "response"
                    /\ request.outcomes[i].status \in 400..499)
====
